---- MODULE Spec2Model ----
(***************************************************************************)
(* Model of the isochrone core of munich-time-wanderer:                    *)
(*   - getConnectedStops            (src/src/utils/gtfsParser.ts)          *)
(*   - calculateIsochroneForThreshold                                      *)
(*         (isochroneGenerator.ts, src/src/utils/isochroneUtils/           *)
(*          DOCUMENTATION.md lines 131-217)                                *)
(*   - calculateIsochrone           (src/src/utils/isochroneCalculator.ts) *)
(*   - the Index page's handlers    (src/src/pages/Index.tsx)              *)
(* Each component has its own specification (SpecConn, SpecIso, SpecCalc,  *)
(* SpecIndex) over one set of variables; the variables of the components   *)
(* a specification does not run stay at their idle values.                 *)
(***************************************************************************)
EXTENDS Integers, Sequences, FiniteSets, TLC

VARIABLES
    \* ---- getConnectedStops ----
    stopTimes,        \* StopTime[]: the stop_times table
    startStopId,      \* the origin stop id
    timeRadius,       \* the budget, minutes
    connectedStops,   \* the returned list of {stopId, travelTime}
    connPc,           \* "idle" before the call, "done" after it
    \* ---- calculateIsochroneForThreshold ----
    isoOrigin,        \* the origin argument (a point, or absent)
    isoPoints,        \* points.features
    isoThreshold,     \* timeThreshold
    isoWithin,        \* pointsWithinTime.features
    isoLog,           \* the strategies attempted and what each did, in order
    isoResult,        \* the value returned
    isoPc,            \* position in the function
    \* ---- calculateIsochrone ----
    calcStop,         \* the stop argument
    calcConnected,    \* the connectedStops argument
    calcStopsMap,     \* the stopsMap argument
    calcThresholds,   \* the timeThresholds argument
    calcPoints,       \* stopPoints / pointsCollection.features
    calcOutcomes,     \* what interpolateWithTIN did for each threshold so far
    calcResult,       \* isochrones
    calcPc,           \* position in the function
    \* ---- Index page ----
    selectedStops,    \* useState selectedStops
    selectedModes,    \* useState selectedModes
    timeRadiusMinutes,\* useState timeRadiusMinutes
    isochroneData,    \* useState isochroneData
    isLoading,        \* useState isLoading
    runStops,         \* selectedStops captured by the running calculateIsochrones
    runRadius,        \* timeRadiusMinutes captured by the running calculateIsochrones
    runIndex,         \* index of the next stop of the for loop
    newIsochroneData, \* the local newIsochroneData of the run
    runFailed,        \* stop ids whose calculateIsochrone rejected in this run
    toasts,           \* titles of the toasts raised by the run
    idxPc,            \* "idle" | "loop" (calculateIsochrones is running) |
                      \* "settled" (it has just returned) | "returned"
                      \* (it returned at its guard)
    \* ---- interpolateWithTIN: the callback of grid.features.map ----
    tinPoints,        \* points.features
    tinCoord,         \* the grid point's coordinates
    tinTime,          \* interpolatedTime
    tinPc,            \* "idle" | "start" | "done"
    \* ---- getColorForTime ----
    colorMinutes,     \* the minutes argument
    colorResult,      \* the colour returned
    colorPc,          \* "idle" | "start" | "done"
    \* ---- filterRoutesByMode ----
    routeList,        \* the routes argument
    modeList,         \* the selectedModes argument
    filteredRoutes,   \* the list returned
    filterPc,         \* "idle" | "start" | "done"
    \* ---- generateSimulatedPoints, then the filter of ----
    \* ---- calculateIsochroneForThreshold over its points ----
    simOptions,       \* the options argument: the fields that are given
    simPoints,        \* the features of the collection returned
    simThreshold,     \* timeThreshold of the filter
    simWithin,        \* pointsWithinTime.features
    simPc,            \* "idle" | "start" | "generated" | "filtered"
    \* ---- two calls of getConnectedStops that differ in trips and routes ----
    pairStopTimes,    \* the stopTimes argument of both calls
    pairRadius,       \* the timeRadius argument of both calls
    pairTrips,        \* the trips argument of the first and of the second call
    pairRoutes,       \* the routes argument of the first and of the second call
    pairResults,      \* the results of the calls made so far
    pairPc,           \* "idle" | "calls" | "done"
    \* ---- formatMinutesToTime, then parseTimeToMinutes ----
    timeMinutes,      \* the minutes argument of formatMinutesToTime
    timeText,         \* the string it returns, as its characters
    timeParsed,       \* parseTimeToMinutes of that string
    timePc            \* "idle" | "start" | "formatted" | "parsed"

connVars == <<stopTimes, startStopId, timeRadius, connectedStops, connPc>>
isoVars == <<isoOrigin, isoPoints, isoThreshold, isoWithin, isoLog, isoResult, isoPc>>
calcVars == <<calcStop, calcConnected, calcStopsMap, calcThresholds,
              calcPoints, calcOutcomes, calcResult, calcPc>>
idxVars == <<selectedStops, selectedModes, timeRadiusMinutes, isochroneData,
             isLoading, runStops, runRadius, runIndex, newIsochroneData,
             runFailed, toasts, idxPc>>
tinVars == <<tinPoints, tinCoord, tinTime, tinPc>>
colorVars == <<colorMinutes, colorResult, colorPc>>
filterVars == <<routeList, modeList, filteredRoutes, filterPc>>
simVars == <<simOptions, simPoints, simThreshold, simWithin, simPc>>
pairVars == <<pairStopTimes, pairRadius, pairTrips, pairRoutes, pairResults, pairPc>>
timeVars == <<timeMinutes, timeText, timeParsed, timePc>>
moreVars == <<simVars, pairVars, timeVars>>
fnVars == <<tinVars, colorVars, filterVars, moreVars>>
vars == <<connVars, isoVars, calcVars, idxVars, fnVars>>

(***************************************************************************)
(* Bounds of the model.                                                    *)
(***************************************************************************)
MaxVisits == 4
MaxPoints == 5
MaxConnected == 2
MaxThresholds == 2

(***************************************************************************)
(* Generic helpers.                                                        *)
(***************************************************************************)
Range(s) == {s[i] : i \in 1..Len(s)}

MinOf(S) == CHOOSE x \in S : \A y \in S : x <= y

(***************************************************************************)
(* Idle values of each component's variables.                              *)
(***************************************************************************)
ConnIdle ==
    /\ stopTimes = <<>>
    /\ startStopId = "O"
    /\ timeRadius = 0
    /\ connectedStops = <<>>
    /\ connPc = "idle"

IsoIdle ==
    /\ isoOrigin = [present |-> FALSE, coord |-> 0]
    /\ isoPoints = <<>>
    /\ isoThreshold = 0
    /\ isoWithin = <<>>
    /\ isoLog = <<>>
    /\ isoResult = [kind |-> "pending"]
    /\ isoPc = "idle"

CalcIdle ==
    /\ calcStop = "O"
    /\ calcConnected = <<>>
    /\ calcStopsMap = [defined |-> TRUE, ids |-> {}]
    /\ calcThresholds = <<>>
    /\ calcPoints = <<>>
    /\ calcOutcomes = <<>>
    /\ calcResult = <<>>
    /\ calcPc = "idle"

IdxIdle ==
    /\ selectedStops = <<>>
    /\ selectedModes = {}
    /\ timeRadiusMinutes = 0
    /\ isochroneData = <<>>
    /\ isLoading = FALSE
    /\ runStops = <<>>
    /\ runRadius = 0
    /\ runIndex = 0
    /\ newIsochroneData = <<>>
    /\ runFailed = {}
    /\ toasts = <<>>
    /\ idxPc = "idle"

TinIdle ==
    /\ tinPoints = <<>>
    /\ tinCoord = <<0, 0>>
    /\ tinTime = [kind |-> "pending", num |-> 0, den |-> 1]
    /\ tinPc = "idle"

ColorIdle ==
    /\ colorMinutes = 0
    /\ colorResult = ""
    /\ colorPc = "idle"

FilterIdle ==
    /\ routeList = <<>>
    /\ modeList = <<>>
    /\ filteredRoutes = <<>>
    /\ filterPc = "idle"

SimIdle ==
    /\ simOptions = <<>>
    /\ simPoints = <<>>
    /\ simThreshold = 0
    /\ simWithin = <<>>
    /\ simPc = "idle"

PairIdle ==
    /\ pairStopTimes = <<>>
    /\ pairRadius = 0
    /\ pairTrips = <<>>
    /\ pairRoutes = <<>>
    /\ pairResults = <<>>
    /\ pairPc = "idle"

TimeIdle ==
    /\ timeMinutes = 0
    /\ timeText = <<>>
    /\ timeParsed = 0
    /\ timePc = "idle"

MoreIdle == SimIdle /\ PairIdle /\ TimeIdle

FnIdle == TinIdle /\ ColorIdle /\ FilterIdle /\ MoreIdle

\* the components above are idle while one of the three last ones runs
CoreIdle == ConnIdle /\ IsoIdle /\ CalcIdle /\ IdxIdle /\ TinIdle /\ ColorIdle /\ FilterIdle

coreVars == <<connVars, isoVars, calcVars, idxVars, tinVars, colorVars, filterVars>>

(***************************************************************************)
(* The schedule: stop ids, trip ids and clock times of the modelled feeds. *)
(* A clock time "HH:MM:00" is the record [hh, mm]; the modelled feeds have *)
(* whole-minute times, for which `seconds ? seconds / 60 : 0` is 0.        *)
(***************************************************************************)
StopIds == {"O", "A", "B"}
TripOrder == <<"T1", "T2">>
TripIds == Range(TripOrder)
ClockTimes == {[hh |-> 8, mm |-> 0], [hh |-> 8, mm |-> 5], [hh |-> 8, mm |-> 12]}
Budgets == {5, 15}

StopTime == [trip_id : TripIds, stop_id : StopIds, departure_time : ClockTimes]

\* parseTimeToMinutes: hours * 60 + minutes (+ seconds / 60, 0 here).
parseTimeToMinutes(timeStr) == timeStr.hh * 60 + timeStr.mm

\* A feed lists its rows trip by trip, each trip in departure order (the
\* data model's invariant on the visits of one trip).
TripRank(t) == CHOOSE i \in 1..Len(TripOrder) : TripOrder[i] = t

FeedOrdered(a, b) ==
    \/ TripRank(a.trip_id) < TripRank(b.trip_id)
    \/ /\ a.trip_id = b.trip_id
       /\ parseTimeToMinutes(a.departure_time) <= parseTimeToMinutes(b.departure_time)

IsFeed(f) == \A i \in 1..(Len(f) - 1) : FeedOrdered(f[i], f[i + 1])

Feeds(n) == UNION {{f \in [1..k -> StopTime] : IsFeed(f)} : k \in 0..n}

(***************************************************************************)
(* getConnectedStops (gtfsParser.ts 233-308).  The Map connectedStops is   *)
(* a sequence of entries in insertion order.                               *)
(***************************************************************************)
MapHas(m, k) == \E i \in 1..Len(m) : m[i].stopId = k

MapGet(m, k) == m[CHOOSE i \in 1..Len(m) : m[i].stopId = k].travelTime

MapSet(m, k, v) ==
    IF MapHas(m, k)
    THEN [i \in 1..Len(m) |-> IF m[i].stopId = k
                              THEN [stopId |-> k, travelTime |-> v] ELSE m[i]]
    ELSE Append(m, [stopId |-> k, travelTime |-> v])

\* lines 241-246: one entry per row of the origin
TripsThroughStop(start, sts) ==
    LET rows == SelectSeq(sts, LAMBDA st : st.stop_id = start)
    IN [i \in 1..Len(rows) |->
          [tripId |-> rows[i].trip_id,
           departureTime |-> parseTimeToMinutes(rows[i].departure_time)]]

\* Array.prototype.sort with the comparator of lines 255-257 (stable).
RECURSIVE InsertByDeparture(_, _)
InsertByDeparture(sorted, st) ==
    IF sorted = <<>> THEN <<st>>
    ELSE IF parseTimeToMinutes(sorted[Len(sorted)].departure_time)
              <= parseTimeToMinutes(st.departure_time)
         THEN Append(sorted, st)
         ELSE Append(InsertByDeparture(SubSeq(sorted, 1, Len(sorted) - 1), st),
                     sorted[Len(sorted)])

RECURSIVE SortByDeparture(_)
SortByDeparture(s) ==
    IF s = <<>> THEN <<>>
    ELSE InsertByDeparture(SortByDeparture(SubSeq(s, 1, Len(s) - 1)), s[Len(s)])

\* Mutant of StopsOnTrip: the rows of every trip, not only of tripId.
StopsOnTripOfAnyTrip(tripId, sts) == SortByDeparture(sts)

\* lines 253-257
StopsOnTrip(tripId, sts) ==
    SortByDeparture(SelectSeq(sts, LAMBDA st : st.trip_id = tripId))

\* line 260: findIndex, 1-based; 0 stands for -1
StartStopIndex(stopsOnTrip, start) ==
    IF \E i \in 1..Len(stopsOnTrip) : stopsOnTrip[i].stop_id = start
    THEN MinOf({i \in 1..Len(stopsOnTrip) : stopsOnTrip[i].stop_id = start})
    ELSE 0

\* Mutants of the time-radius test: no limit at all; a strict limit.
WithinRadiusNoLimit(travelTime, radius) == TRUE

WithinRadiusStrict(travelTime, radius) == travelTime < radius

\* A test that is not monotone in the elapsed time: 0 fails, later times pass.
WithinRadiusPositive(travelTime, radius) == travelTime # 0 /\ travelTime <= radius

\* lines 270 and 289: the time-radius test
WithinRadius(travelTime, radius) == travelTime <= radius

\* lines 272-275 and 291-294: keep the faster route
Retain(m, stopId, travelTime) ==
    IF ~MapHas(m, stopId) \/ MapGet(m, stopId) > travelTime
    THEN MapSet(m, stopId, travelTime)
    ELSE m

\* lines 264-280: the stops after the starting stop
RECURSIVE ForwardWalk(_, _, _, _, _)
ForwardWalk(stopsOnTrip, i, departureTime, radius, m) ==
    IF i > Len(stopsOnTrip) THEN m
    ELSE LET currentStop == stopsOnTrip[i]
             travelTime == parseTimeToMinutes(currentStop.departure_time) - departureTime
         IN IF WithinRadius(travelTime, radius)
            THEN ForwardWalk(stopsOnTrip, i + 1, departureTime, radius,
                             Retain(m, currentStop.stop_id, travelTime))
            ELSE m

\* lines 283-299: the stops before the starting stop
RECURSIVE BackwardWalk(_, _, _, _, _)
BackwardWalk(stopsOnTrip, i, departureTime, radius, m) ==
    IF i < 1 THEN m
    ELSE LET currentStop == stopsOnTrip[i]
             travelTime == departureTime - parseTimeToMinutes(currentStop.departure_time)
         IN IF WithinRadius(travelTime, radius)
            THEN BackwardWalk(stopsOnTrip, i - 1, departureTime, radius,
                              Retain(m, currentStop.stop_id, travelTime))
            ELSE m

\* lines 251-301: the body of the forEach for one entry of tripsThroughStop
ProcessTrip(entry, start, sts, radius, m) ==
    LET stopsOnTrip == StopsOnTrip(entry.tripId, sts)
        startStopIndex == StartStopIndex(stopsOnTrip, start)
    IN IF startStopIndex # 0
       THEN BackwardWalk(stopsOnTrip, startStopIndex - 1, entry.departureTime, radius,
                ForwardWalk(stopsOnTrip, startStopIndex + 1, entry.departureTime,
                            radius, m))
       ELSE m

RECURSIVE ForEachTrip(_, _, _, _, _, _)
ForEachTrip(through, k, start, sts, radius, m) ==
    IF k > Len(through) THEN m
    ELSE ForEachTrip(through, k + 1, start, sts, radius,
                     ProcessTrip(through[k], start, sts, radius, m))

\* Mutant of getConnectedStops: an origin without a visit is replaced by the
\* stop of the first row.
getConnectedStopsDefaultOrigin(start, sts, radius) ==
    LET origin == IF sts = <<>> \/ (\E i \in 1..Len(sts) : sts[i].stop_id = start)
                  THEN start ELSE sts[1].stop_id
    IN ForEachTrip(TripsThroughStop(origin, sts), 1, origin, sts, radius, <<>>)

\* lines 233-308 (the trips and routes arguments are never read)
getConnectedStops(start, sts, radius) ==
    ForEachTrip(TripsThroughStop(start, sts), 1, start, sts, radius, <<>>)

\* The feed of the documented example: one trip whose visits after the origin
\* depart 5, 12 and 20 minutes after it, at A, B and C.
ExampleFeed ==
    << [trip_id |-> "T1", stop_id |-> "O", departure_time |-> [hh |-> 8, mm |-> 0]],
       [trip_id |-> "T1", stop_id |-> "A", departure_time |-> [hh |-> 8, mm |-> 5]],
       [trip_id |-> "T1", stop_id |-> "B", departure_time |-> [hh |-> 8, mm |-> 12]],
       [trip_id |-> "T1", stop_id |-> "C", departure_time |-> [hh |-> 8, mm |-> 20]] >>

AllStopIds == StopIds \cup {"C"}

InitConn ==
    /\ \/ stopTimes \in Feeds(MaxVisits) /\ timeRadius \in Budgets
       \/ stopTimes = ExampleFeed /\ timeRadius = 15
    /\ startStopId = "O"
    /\ connectedStops = <<>>
    /\ connPc = "idle"
    /\ IsoIdle /\ CalcIdle /\ IdxIdle /\ FnIdle

CallGetConnectedStops ==
    /\ connPc = "idle"
    /\ connectedStops' = getConnectedStops(startStopId, stopTimes, timeRadius)
    /\ connPc' = "done"
    /\ UNCHANGED <<stopTimes, startStopId, timeRadius, isoVars, calcVars, idxVars, fnVars>>

NextConn == CallGetConnectedStops

SpecConn == InitConn /\ [][NextConn]_vars

(***************************************************************************)
(* Claims about getConnectedStops (checked under SpecConn).                *)
(***************************************************************************)
Abs(x) == IF x < 0 THEN -x ELSE x

Departure(st) == parseTimeToMinutes(st.departure_time)

\* The rows of trip t in departure order, and the positions of a stop in it.
TripVisits(t) == StopsOnTrip(t, stopTimes)

PositionsOf(t, s) == {i \in 1..Len(TripVisits(t)) : TripVisits(t)[i].stop_id = s}

\* The elapsed times within budget from any occurrence o of the origin to
\* any visit v of stop s on the same trip: forward from o's own position
\* when v comes after o, backward when v comes before it.
ElapsedFrom(t, o, v) ==
    IF v > o THEN Departure(TripVisits(t)[v]) - Departure(TripVisits(t)[o])
             ELSE Departure(TripVisits(t)[o]) - Departure(TripVisits(t)[v])

ElapsedOnTrip(t, s) ==
    {ElapsedFrom(t, p[1], p[2]) :
        p \in {q \in PositionsOf(t, startStopId) \X PositionsOf(t, s) : q[1] # q[2]}}

ElapsedWithinBudget(s) ==
    {e \in UNION {ElapsedOnTrip(t, s) : t \in TripIds} : e <= timeRadius}

\* C1: the result of getConnectedStops never holds an entry for the origin,
\* loop stops and origins on several trips included.
C1_OriginExcluded ==
    connPc = "done" =>
        \A i \in 1..Len(connectedStops) : connectedStops[i].stopId # startStopId

\* C2: every travelTime of the result of getConnectedStops is <= timeRadius.
C2_WithinBudget ==
    connPc = "done" =>
        \A i \in 1..Len(connectedStops) : connectedStops[i].travelTime <= timeRadius

\* C2 witness: a call returned a non-empty result although a visit on a trip
\* of the origin lies further than the budget from it.
C2_Witness ==
    /\ connPc = "done"
    /\ connectedStops # <<>>
    /\ \E i, j \in 1..Len(stopTimes) :
          /\ stopTimes[i].stop_id = startStopId
          /\ stopTimes[j].trip_id = stopTimes[i].trip_id
          /\ Departure(stopTimes[j]) - Departure(stopTimes[i]) > timeRadius

\* C3: for every stop s other than the origin the result holds the minimum
\* elapsed time within budget over every occurrence of the origin and every
\* visit of s on the same trip, each occurrence walked from its own position
\* with its own departure time; s is absent exactly when there is none.
C3_MinimumElapsed ==
    connPc = "done" =>
        \A s \in AllStopIds \ {startStopId} :
            IF ElapsedWithinBudget(s) = {}
            THEN ~MapHas(connectedStops, s)
            ELSE /\ MapHas(connectedStops, s)
                 /\ MapGet(connectedStops, s) = MinOf(ElapsedWithinBudget(s))

\* A feed with a single trip that visits the origin once.
SingleTripThroughOrigin ==
    /\ \A i, j \in 1..Len(stopTimes) : stopTimes[i].trip_id = stopTimes[j].trip_id
    /\ Cardinality({i \in 1..Len(stopTimes) : stopTimes[i].stop_id = startStopId}) = 1

OriginRow == stopTimes[CHOOSE i \in 1..Len(stopTimes) : stopTimes[i].stop_id = startStopId]

OffsetsOf(s) ==
    {Abs(Departure(stopTimes[i]) - Departure(OriginRow)) :
        i \in {k \in 1..Len(stopTimes) : stopTimes[k].stop_id = s}}

\* C4: for a single trip through the origin the result is exactly the set of
\* stops whose offset from the origin is <= budget, each mapped to that
\* offset; offsets 5, 12, 20 at A, B, C with budget 15 give {A:5, B:12}.
C4_SingleTripOffsets ==
    (connPc = "done" /\ SingleTripThroughOrigin) =>
        /\ \A i \in 1..Len(connectedStops) :
              connectedStops[i].stopId \in AllStopIds \ {startStopId}
        /\ \A s \in AllStopIds \ {startStopId} :
              /\ MapHas(connectedStops, s) <=> \E d \in OffsetsOf(s) : d <= timeRadius
              /\ MapHas(connectedStops, s) =>
                    MapGet(connectedStops, s) = MinOf(OffsetsOf(s))
        /\ (stopTimes = ExampleFeed /\ timeRadius = 15) =>
              connectedStops = << [stopId |-> "A", travelTime |-> 5],
                                  [stopId |-> "B", travelTime |-> 12] >>

\* C4 witness: the documented example has been computed, with C left out.
C4_Witness ==
    /\ connPc = "done"
    /\ stopTimes = ExampleFeed
    /\ timeRadius = 15
    /\ MapHas(connectedStops, "A") /\ MapHas(connectedStops, "B")
    /\ ~MapHas(connectedStops, "C")

(***************************************************************************)
(* calculateIsochroneForThreshold (isochroneGenerator.ts, in               *)
(* isochroneUtils/DOCUMENTATION.md 146-204).                               *)
(* A sample is [coord, defined, travelTime]: `defined` tells whether the   *)
(* point has a travelTime property at all.  A radius is the exact fraction *)
(* num/den kilometres.  turf.concave and turf.convex are library calls:    *)
(* each may return a polygon, return null (no hull) or raise.              *)
(***************************************************************************)
SampleTimes == {10, 40}
Thresholds == {15, 30, 60}
HullOutcomes == {"polygon", "null", "throws"}

Sample == [defined : {TRUE}, travelTime : SampleTimes]
              \cup {[defined |-> FALSE, travelTime |-> 0]}

\* points.features: the sample at index i lies at coordinate i
PointSets == UNION {[1..n -> Sample] : n \in 0..MaxPoints}

RatEq(a, b) == a.num * b.den = b.num * a.den

NullResult == [kind |-> "null"]

\* lines 154-155: point.properties?.travelTime || 0, compared to the threshold
Qualifies(point, timeThreshold) ==
    (IF point.defined THEN point.travelTime ELSE 0) <= timeThreshold

\* lines 152-157: pointsWithinTime, as the indices kept, in order
PointsWithinTime(points, timeThreshold) ==
    SelectSeq([i \in 1..Len(points) |-> i],
              LAMBDA i : Qualifies(points[i], timeThreshold))

\* lines 164 and 194: 0.5 * timeThreshold / 15
CircleRadius(timeThreshold) == [num |-> 5 * timeThreshold, den |-> 10 * 15]

\* lines 165-168 and 195-198: turf.circle(origin.geometry.coordinates, circleRadius)
OriginCircle(origin, timeThreshold) ==
    [kind |-> "circle", center |-> origin.coord, radius |-> CircleRadius(timeThreshold)]

\* Mutant of the small-case test: another limit.
VeryFewPointsLimit2(within) == Len(within) <= 2

\* line 160: pointsWithinTime.features.length <= 3
VeryFewPoints(within) == Len(within) <= 3

InitIso ==
    /\ isoOrigin \in {[present |-> TRUE, coord |-> 0], [present |-> FALSE, coord |-> 0]}
    /\ isoPoints \in PointSets
    /\ isoThreshold \in Thresholds
    /\ isoWithin = <<>>
    /\ isoLog = <<>>
    /\ isoResult = [kind |-> "pending"]
    /\ isoPc = "start"
    /\ ConnIdle /\ CalcIdle /\ IdxIdle /\ FnIdle

IsoUnchanged == UNCHANGED <<isoOrigin, isoPoints, isoThreshold, connVars, calcVars, idxVars, fnVars>>

\* lines 152-157
FilterPoints ==
    /\ isoPc = "start"
    /\ isoWithin' = PointsWithinTime(isoPoints, isoThreshold)
    /\ isoPc' = "filtered"
    /\ UNCHANGED <<isoLog, isoResult>>
    /\ IsoUnchanged

\* lines 160-171: the special case for very few points
SmallCase ==
    /\ isoPc = "filtered"
    /\ VeryFewPoints(isoWithin)
    /\ IF isoOrigin.present
       THEN /\ isoResult' = OriginCircle(isoOrigin, isoThreshold)
            /\ isoLog' = Append(isoLog, [strategy |-> "circle", outcome |-> "polygon"])
       ELSE /\ isoResult' = NullResult
            /\ UNCHANGED isoLog
    /\ isoPc' = "done"
    /\ UNCHANGED isoWithin
    /\ IsoUnchanged

\* Mutant of TryConcave: the convex hull is tried after a concave hull that
\* succeeded, too.
TryConcaveThenConvex ==
    /\ isoPc = "filtered"
    /\ ~VeryFewPoints(isoWithin)
    /\ \E outcome \in HullOutcomes :
          /\ isoLog' = Append(isoLog, [strategy |-> "concave", outcome |-> outcome])
          /\ isoResult' = CASE outcome = "polygon" ->
                                  [kind |-> "concave", points |-> isoWithin]
                            [] outcome = "null" -> NullResult
                            [] OTHER -> isoResult
          /\ isoPc' = IF outcome = "null" THEN "done" ELSE "catchConcave"
    /\ UNCHANGED isoWithin
    /\ IsoUnchanged

\* lines 173-183: return turf.concave(...), or enter the catch block
TryConcave ==
    /\ isoPc = "filtered"
    /\ ~VeryFewPoints(isoWithin)
    /\ \E outcome \in HullOutcomes :
          /\ isoLog' = Append(isoLog, [strategy |-> "concave", outcome |-> outcome])
          /\ isoResult' = CASE outcome = "polygon" ->
                                  [kind |-> "concave", points |-> isoWithin]
                            [] outcome = "null" -> NullResult
                            [] OTHER -> isoResult
          /\ isoPc' = IF outcome = "throws" THEN "catchConcave" ELSE "done"
    /\ UNCHANGED isoWithin
    /\ IsoUnchanged

\* lines 186-189: return turf.convex(...), or enter the inner catch block
TryConvex ==
    /\ isoPc = "catchConcave"
    /\ \E outcome \in HullOutcomes :
          /\ isoLog' = Append(isoLog, [strategy |-> "convex", outcome |-> outcome])
          /\ isoResult' = CASE outcome = "polygon" ->
                                  [kind |-> "convex", points |-> isoWithin]
                            [] outcome = "null" -> NullResult
                            [] OTHER -> isoResult
          /\ isoPc' = IF outcome = "throws" THEN "catchConvex" ELSE "done"
    /\ UNCHANGED isoWithin
    /\ IsoUnchanged

\* lines 192-201: the last resort
LastResortCircle ==
    /\ isoPc = "catchConvex"
    /\ IF isoOrigin.present
       THEN /\ isoResult' = OriginCircle(isoOrigin, isoThreshold)
            /\ isoLog' = Append(isoLog, [strategy |-> "circle", outcome |-> "polygon"])
       ELSE /\ isoResult' = NullResult
            /\ UNCHANGED isoLog
    /\ isoPc' = "done"
    /\ UNCHANGED isoWithin
    /\ IsoUnchanged

NextIso == FilterPoints \/ SmallCase \/ TryConcave \/ TryConvex \/ LastResortCircle

SpecIso == InitIso /\ [][NextIso]_vars

(***************************************************************************)
(* Claims about calculateIsochroneForThreshold (checked under SpecIso).    *)
(***************************************************************************)
Attempted(strategy) == \E i \in 1..Len(isoLog) : isoLog[i].strategy = strategy

\* C5: given an origin point, calculateIsochroneForThreshold returns a
\* polygon, never null or undefined, whatever the samples, the threshold and
\* the outcomes of the concave and convex hull strategies.
C5_NeverNothing ==
    (isoPc = "done" /\ isoOrigin.present) =>
        isoResult.kind \in {"circle", "concave", "convex"}

\* C6: with at most 3 qualifying samples the result is the circle centred on
\* the origin with radius exactly 0.5 x threshold / 15 (30 gives 1.0, 60
\* gives 2.0), and neither hull is attempted.
C6_FewSamplesCircle ==
    (isoPc = "done" /\ isoOrigin.present
       /\ Cardinality({i \in 1..Len(isoPoints) :
                          isoPoints[i].defined => isoPoints[i].travelTime <= isoThreshold}) <= 3) =>
        /\ isoResult.kind = "circle"
        /\ isoResult.center = isoOrigin.coord
        /\ RatEq(isoResult.radius, [num |-> isoThreshold, den |-> 30])
        /\ isoThreshold = 30 => RatEq(isoResult.radius, [num |-> 1, den |-> 1])
        /\ isoThreshold = 60 => RatEq(isoResult.radius, [num |-> 2, den |-> 1])
        /\ ~Attempted("concave") /\ ~Attempted("convex")

\* C6 witness: exactly 3 of more than 3 samples qualify and the circle of
\* radius 1.0 was returned for threshold 30.
C6_Witness ==
    /\ isoPc = "done"
    /\ isoOrigin.present
    /\ Len(isoPoints) > 3
    /\ Len(isoWithin) = 3
    /\ isoThreshold = 30
    /\ isoResult.kind = "circle"

(***************************************************************************)
(* calculateIsochrone (isochroneCalculator.ts 7-73) and interpolateWithTIN *)
(* (76-193).  A stop's coordinates are named by its id.  The geometry of   *)
(* turf.tin / pointGrid / isolines / union is library behaviour; what the  *)
(* code does with it is one of:                                            *)
(*   "merged"      isolines were found and merged into a polygon (165-192) *)
(*   "noIsolines"  no isoline: the circle around the origin (150-163)      *)
(*   "noPolygons"  no isoline converts to a polygon: throw (176-178)       *)
(*   "raises"      a turf call raises                                      *)
(***************************************************************************)
ConnectedIds == {"A", "B"}
ConnectedTimes == {0, 10}
ThresholdValues == {15, 30, 45, 60}
TinOutcomes == {"merged", "noIsolines", "noPolygons", "raises"}

Connection == [stopId : ConnectedIds, travelTime : ConnectedTimes]

\* connectedStops as getConnectedStops returns it: one entry per stop id
ConnectedLists ==
    {c \in UNION {[1..n -> Connection] : n \in 0..MaxConnected} :
        \A i, j \in 1..Len(c) : c[i].stopId = c[j].stopId => i = j}

\* timeThresholds: distinct values of ThresholdValues in any order
ThresholdLists ==
    {t \in UNION {[1..n -> ThresholdValues] : n \in 0..MaxThresholds} :
        \A i, j \in 1..Len(t) : t[i] = t[j] => i = j}

StopsMaps == {[defined |-> FALSE, ids |-> {}],
              [defined |-> TRUE, ids |-> {"A"}],
              [defined |-> TRUE, ids |-> {"A", "B"}]}

\* line 15: stopsMap.has(...) raises a TypeError when stopsMap is undefined;
\* filter calls it once per element, so only for a non-empty list
BuildPointsRaises(connected, stopsMap) == Len(connected) > 0 /\ ~stopsMap.defined

\* Mutant of StopPoints: a connected stop that stopsMap does not know is kept.
StopPointsKeepUnknown(stop, connected, stopsMap) ==
    Append([i \in 1..Len(connected) |->
               [coord |-> connected[i].stopId, travelTime |-> connected[i].travelTime]],
           [coord |-> stop, travelTime |-> 0])

\* lines 14-34: the points of the known connected stops, then the origin
StopPoints(stop, connected, stopsMap) ==
    LET known == SelectSeq(connected, LAMBDA c : c.stopId \in stopsMap.ids)
    IN Append([i \in 1..Len(known) |->
                  [coord |-> known[i].stopId, travelTime |-> known[i].travelTime]],
              [coord |-> stop, travelTime |-> 0])

\* line 153: points.features.find(p => p.properties.travelTime === 0)
FindOrigin(points) ==
    LET zero == {i \in 1..Len(points) : points[i].travelTime = 0}
    IN IF zero = {} THEN [found |-> FALSE, coord |-> ""]
       ELSE [found |-> TRUE, coord |-> points[MinOf(zero)].coord]

\* Mutant of the fallback radius: another scale.
FallbackRadiusWrongScale(minutes) == [num |-> 5 * minutes, den |-> 10 * 10]

\* lines 61 and 157: 0.5 * minutes / 15
FallbackRadius(minutes) == [num |-> 5 * minutes, den |-> 10 * 15]

Circle64(center, minutes, properties) ==
    [kind |-> "circle", center |-> center, radius |-> FallbackRadius(minutes),
     steps |-> 64, properties |-> properties]

NoProperties == [contour |-> 0, set |-> FALSE]

Contour(minutes) == [contour |-> minutes, set |-> TRUE]

\* lines 76-193: [raised, value]
interpolateWithTIN(points, timeThreshold, outcome) ==
    CASE outcome = "merged" ->
            [raised |-> FALSE,
             value |-> [kind |-> "isolines", center |-> "", radius |-> [num |-> 0, den |-> 1],
                        steps |-> 0, properties |-> NoProperties]]
      [] outcome = "noIsolines" ->
            IF FindOrigin(points).found
            THEN [raised |-> FALSE,
                  value |-> Circle64(FindOrigin(points).coord, timeThreshold, NoProperties)]
            ELSE [raised |-> TRUE, value |-> [kind |-> "none"]]
      [] OTHER -> [raised |-> TRUE, value |-> [kind |-> "none"]]

\* lines 41-69: the callback of timeThresholds.map for one threshold
IsochroneFor(stop, points, minutes, outcome) ==
    LET tinResult == interpolateWithTIN(points, minutes, outcome)
    IN IF tinResult.raised
       THEN Circle64(stop, minutes, Contour(minutes))
       ELSE [tinResult.value EXCEPT !.properties = Contour(minutes)]

\* A descending sort of the thresholds (the code has none): the mutant of
\* ThresholdAt.
RECURSIVE SortDescending(_)
SortDescending(t) ==
    IF t = <<>> THEN <<>>
    ELSE LET m == CHOOSE i \in 1..Len(t) : \A j \in 1..Len(t) : t[j] <= t[i]
         IN <<t[m]>> \o SortDescending(SubSeq(t, 1, m - 1) \o SubSeq(t, m + 1, Len(t)))

ThresholdAtSortedDescending(timeThresholds, i) == SortDescending(timeThresholds)[i]

\* line 41: timeThresholds.map visits the thresholds in the order given
ThresholdAt(timeThresholds, i) == timeThresholds[i]

InitCalc ==
    /\ calcStop = "O"
    /\ calcConnected \in ConnectedLists
    /\ calcStopsMap \in StopsMaps
    /\ calcThresholds \in ThresholdLists
    /\ calcPoints = <<>>
    /\ calcOutcomes = <<>>
    /\ calcResult = <<>>
    /\ calcPc = "start"
    /\ ConnIdle /\ IsoIdle /\ IdxIdle /\ FnIdle

CalcUnchanged ==
    UNCHANGED <<calcStop, calcConnected, calcStopsMap, calcThresholds,
                connVars, isoVars, idxVars, fnVars>>

\* lines 14-37: build pointsCollection, or reject
BuildPoints ==
    /\ calcPc = "start"
    /\ IF BuildPointsRaises(calcConnected, calcStopsMap)
       THEN /\ calcPc' = "rejected"
            /\ UNCHANGED calcPoints
       ELSE /\ calcPoints' = StopPoints(calcStop, calcConnected, calcStopsMap)
            /\ calcPc' = "thresholds"
    /\ UNCHANGED <<calcOutcomes, calcResult>>
    /\ CalcUnchanged

\* lines 41-69: the next threshold's callback, whatever interpolateWithTIN does
ComputeThreshold ==
    /\ calcPc = "thresholds"
    /\ Len(calcResult) < Len(calcThresholds)
    /\ \E outcome \in TinOutcomes :
          /\ calcOutcomes' = Append(calcOutcomes, outcome)
          /\ calcResult' = Append(calcResult,
                 IsochroneFor(calcStop, calcPoints,
                              ThresholdAt(calcThresholds, Len(calcResult) + 1), outcome))
    /\ UNCHANGED <<calcPoints, calcPc>>
    /\ CalcUnchanged

\* lines 40 and 72: Promise.all resolves, return isochrones
ReturnIsochrones ==
    /\ calcPc = "thresholds"
    /\ Len(calcResult) = Len(calcThresholds)
    /\ calcPc' = "done"
    /\ UNCHANGED <<calcPoints, calcOutcomes, calcResult>>
    /\ CalcUnchanged

NextCalc == BuildPoints \/ ComputeThreshold \/ ReturnIsochrones

SpecCalc == InitCalc /\ [][NextCalc]_vars

(***************************************************************************)
(* Claims about calculateIsochrone (checked under SpecCalc).               *)
(***************************************************************************)
Contours == [i \in 1..Len(calcResult) |-> calcResult[i].properties.contour]

TinRaised(i) ==
    \/ calcOutcomes[i] \in {"noPolygons", "raises"}
    \/ calcOutcomes[i] = "noIsolines" /\ \A k \in 1..Len(calcPoints) : calcPoints[k].travelTime # 0

C8_FailureIsolated ==
    calcPc = "done" =>
        /\ Len(calcResult) = Len(calcThresholds)
        /\ \A i \in 1..Len(calcResult) :
              /\ calcResult[i].properties = [contour |-> calcThresholds[i], set |-> TRUE]
              /\ TinRaised(i) =>
                    /\ calcResult[i].kind = "circle"
                    /\ calcResult[i].center = calcStop
                    /\ RatEq(calcResult[i].radius, [num |-> calcThresholds[i], den |-> 30])
                    /\ calcResult[i].steps = 64
              /\ ~TinRaised(i) =>
                    \/ calcOutcomes[i] = "merged" /\ calcResult[i].kind = "isolines"
                    \/ /\ calcOutcomes[i] = "noIsolines"
                       /\ calcResult[i].kind = "circle"
                       /\ RatEq(calcResult[i].radius, [num |-> calcThresholds[i], den |-> 30])

\* C8 witness: of two thresholds one raised and the other did not, and both
\* regions were returned.
C8_Witness ==
    /\ calcPc = "done"
    /\ Len(calcResult) = 2
    /\ \E i, j \in 1..2 : TinRaised(i) /\ ~TinRaised(j) /\ calcOutcomes[j] = "merged"

(***************************************************************************)
(* The Index page (Index.tsx): its state, the handlers the controls call   *)
(* and calculateIsochrones (116-155).  Init is the page after the GTFS     *)
(* data has loaded.  The controls are disabled while isLoading             *)
(* (ControlPanel: slider, switches, button; StopSelector: buttons).        *)
(***************************************************************************)
Stops == {"S1", "S2"}
Modes == {"bus", "subway", "tram", "rail"}
SliderMin == 5
SliderMax == 60
SliderStep == 5
TimeRadii == {r \in SliderMin..SliderMax : (r - SliderMin) % SliderStep = 0}

\* isochroneCalculator.ts line 11: the default of timeThresholds
DefaultThresholds == <<15, 30, 45, 60>>

\* Index.tsx line 133: [15, 30, 45, 60].filter(time => time <= timeRadiusMinutes)
RequestedThresholds(radius) == SelectSeq(<<15, 30, 45, 60>>, LAMBDA time : time <= radius)

\* calculateIsochrone as one call: [rejected, isochrones]; outcomes[i] is what
\* interpolateWithTIN does for the i-th threshold
calculateIsochrone(stop, connected, stopsMap, timeThresholds, outcomes) ==
    IF BuildPointsRaises(connected, stopsMap)
    THEN [rejected |-> TRUE, isochrones |-> <<>>]
    ELSE [rejected |-> FALSE,
          isochrones |->
             [i \in 1..Len(timeThresholds) |->
                 IsochroneFor(stop, StopPoints(stop, connected, stopsMap),
                              ThresholdAt(timeThresholds, i), outcomes[i])]]

\* Index.tsx lines 131-134: the call passes two arguments, the stop and the
\* filtered thresholds; the second parameter of calculateIsochrone is
\* connectedStops, so stopsMap is undefined and timeThresholds takes its
\* default.  In a run of the page the same TIN outcome is drawn for all the
\* thresholds of one call.
IndexCall(stop, radius, outcome) ==
    calculateIsochrone(stop, RequestedThresholds(radius),
                       [defined |-> FALSE, ids |-> {}], DefaultThresholds,
                       [i \in 1..Len(DefaultThresholds) |-> outcome])

\* newIsochroneData[stop.stop_id] = isochrones
SetKey(data, key, value) ==
    [k \in (DOMAIN data) \cup {key} |-> IF k = key THEN value ELSE data[k]]

\* delete newData[stopId]
DeleteKey(data, key) == [k \in (DOMAIN data) \ {key} |-> data[k]]

InitIndex ==
    /\ selectedStops = <<>>
    /\ selectedModes = {"subway", "tram", "bus"}
    /\ timeRadiusMinutes = 30
    /\ isochroneData = <<>>
    /\ isLoading = FALSE
    /\ runStops = <<>>
    /\ runRadius = 0
    /\ runIndex = 0
    /\ newIsochroneData = <<>>
    /\ runFailed = {}
    /\ toasts = <<>>
    /\ idxPc = "idle"
    /\ ConnIdle /\ IsoIdle /\ CalcIdle /\ FnIdle

RunUnchanged == UNCHANGED <<runStops, runRadius, runIndex, newIsochroneData, runFailed, toasts>>

ControlsEnabled == ~isLoading /\ idxPc # "loop"

\* lines 92-94; StopSelector offers only stops that are not selected yet
handleSelectStop ==
    /\ ControlsEnabled
    /\ \E stop \in Stops \ Range(selectedStops) :
          selectedStops' = Append(selectedStops, stop)
    /\ idxPc' = "idle"
    /\ UNCHANGED <<selectedModes, timeRadiusMinutes, isochroneData, isLoading>>
    /\ RunUnchanged
    /\ UNCHANGED <<connVars, isoVars, calcVars, fnVars>>

\* A variant of handleRemoveStop without lines 99-103: the stop's entry of
\* isochroneData stays.
handleRemoveStopKeepData ==
    /\ ControlsEnabled
    /\ \E stopId \in Range(selectedStops) :
          selectedStops' = SelectSeq(selectedStops, LAMBDA stop : stop # stopId)
    /\ idxPc' = "idle"
    /\ UNCHANGED <<selectedModes, timeRadiusMinutes, isochroneData, isLoading>>
    /\ RunUnchanged
    /\ UNCHANGED <<connVars, isoVars, calcVars, fnVars>>

\* lines 97-104
handleRemoveStop ==
    /\ ControlsEnabled
    /\ \E stopId \in Range(selectedStops) :
          /\ selectedStops' = SelectSeq(selectedStops, LAMBDA stop : stop # stopId)
          /\ isochroneData' = DeleteKey(isochroneData, stopId)
    /\ idxPc' = "idle"
    /\ UNCHANGED <<selectedModes, timeRadiusMinutes, isLoading>>
    /\ RunUnchanged
    /\ UNCHANGED <<connVars, isoVars, calcVars, fnVars>>

\* lines 107-113
handleToggleMode ==
    /\ ControlsEnabled
    /\ \E mode \in Modes :
          selectedModes' = IF mode \in selectedModes
                           THEN selectedModes \ {mode}
                           ELSE selectedModes \cup {mode}
    /\ idxPc' = "idle"
    /\ UNCHANGED <<selectedStops, timeRadiusMinutes, isochroneData, isLoading>>
    /\ RunUnchanged
    /\ UNCHANGED <<connVars, isoVars, calcVars, fnVars>>

\* line 174: onTimeRadiusChange={setTimeRadiusMinutes}, from the slider
handleTimeRadiusChange ==
    /\ ControlsEnabled
    /\ \E value \in TimeRadii \ {timeRadiusMinutes} : timeRadiusMinutes' = value
    /\ idxPc' = "idle"
    /\ UNCHANGED <<selectedStops, selectedModes, isochroneData, isLoading>>
    /\ RunUnchanged
    /\ UNCHANGED <<connVars, isoVars, calcVars, fnVars>>

\* lines 116-120: calculateIsochrones starts (it returns at once without a
\* selected stop or a selected mode)
StartCalculateIsochrones ==
    /\ ControlsEnabled
    /\ ~(Len(selectedStops) = 0 \/ selectedModes = {})
    /\ isLoading' = TRUE
    /\ newIsochroneData' = <<>>
    /\ runStops' = selectedStops
    /\ runRadius' = timeRadiusMinutes
    /\ runIndex' = 1
    /\ runFailed' = {}
    /\ toasts' = <<>>
    /\ idxPc' = "loop"
    /\ UNCHANGED <<selectedStops, selectedModes, timeRadiusMinutes, isochroneData>>
    /\ UNCHANGED <<connVars, isoVars, calcVars, fnVars>>

\* line 117: calculateIsochrones invoked without a selected stop or without a
\* selected mode returns at once: no toast, no exception, no state change.
\* (ControlPanel disables its button in that case; the guard is the
\* function's own.)  The locals of a run do not exist for this invocation.
ReturnWithoutRun ==
    /\ ControlsEnabled
    /\ (Len(selectedStops) = 0 \/ selectedModes = {})
    /\ idxPc' = "returned"
    /\ runStops' = <<>>
    /\ runRadius' = 0
    /\ runIndex' = 0
    /\ newIsochroneData' = <<>>
    /\ runFailed' = {}
    /\ toasts' = <<>>
    /\ UNCHANGED <<selectedStops, selectedModes, timeRadiusMinutes, isochroneData, isLoading>>
    /\ UNCHANGED <<connVars, isoVars, calcVars, fnVars>>

\* A variant of CalculateForStop without the finally block of lines 152-154:
\* a rejected call leaves isLoading as it is.
CalculateForStopNoFinally ==
    /\ idxPc = "loop"
    /\ runIndex <= Len(runStops)
    /\ \E outcome \in TinOutcomes :
          LET stop == runStops[runIndex]
              call == IndexCall(stop, runRadius, outcome)
          IN IF call.rejected
             THEN /\ toasts' = toasts \o <<"Calculating", "Calculation Error">>
                  /\ runFailed' = runFailed \cup {stop}
                  /\ idxPc' = "settled"
                  /\ UNCHANGED <<newIsochroneData, runIndex, isLoading>>
             ELSE /\ toasts' = Append(toasts, "Calculating")
                  /\ newIsochroneData' = SetKey(newIsochroneData, stop, call.isochrones)
                  /\ runIndex' = runIndex + 1
                  /\ UNCHANGED <<runFailed, isLoading, idxPc>>
    /\ UNCHANGED <<selectedStops, selectedModes, timeRadiusMinutes, isochroneData,
                   runStops, runRadius>>
    /\ UNCHANGED <<connVars, isoVars, calcVars, fnVars>>

\* lines 124-137, and 145-154 when the awaited call rejects
CalculateForStop ==
    /\ idxPc = "loop"
    /\ runIndex <= Len(runStops)
    /\ \E outcome \in TinOutcomes :
          LET stop == runStops[runIndex]
              call == IndexCall(stop, runRadius, outcome)
          IN IF call.rejected
             THEN /\ toasts' = toasts \o <<"Calculating", "Calculation Error">>
                  /\ runFailed' = runFailed \cup {stop}
                  /\ isLoading' = FALSE
                  /\ idxPc' = "settled"
                  /\ UNCHANGED <<newIsochroneData, runIndex>>
             ELSE /\ toasts' = Append(toasts, "Calculating")
                  /\ newIsochroneData' = SetKey(newIsochroneData, stop, call.isochrones)
                  /\ runIndex' = runIndex + 1
                  /\ UNCHANGED <<runFailed, isLoading, idxPc>>
    /\ UNCHANGED <<selectedStops, selectedModes, timeRadiusMinutes, isochroneData,
                   runStops, runRadius>>
    /\ UNCHANGED <<connVars, isoVars, calcVars, fnVars>>

\* lines 139-144 and 152-154: the loop is over
FinishCalculateIsochrones ==
    /\ idxPc = "loop"
    /\ runIndex > Len(runStops)
    /\ isochroneData' = newIsochroneData
    /\ toasts' = Append(toasts, "Calculation Complete")
    /\ isLoading' = FALSE
    /\ idxPc' = "settled"
    /\ UNCHANGED <<selectedStops, selectedModes, timeRadiusMinutes,
                   runStops, runRadius, runIndex, newIsochroneData, runFailed>>
    /\ UNCHANGED <<connVars, isoVars, calcVars, fnVars>>

NextIndex ==
    \/ handleSelectStop
    \/ handleRemoveStop
    \/ handleToggleMode
    \/ handleTimeRadiusChange
    \/ StartCalculateIsochrones
    \/ ReturnWithoutRun
    \/ CalculateForStop
    \/ FinishCalculateIsochrones

SpecIndex == InitIndex /\ [][NextIndex]_vars

(***************************************************************************)
(* Claims about Index.calculateIsochrones (checked under SpecIndex).       *)
(***************************************************************************)
ContoursOf(regions) == [i \in 1..Len(regions) |-> regions[i].properties.contour]

\* C9: over several selected stops a failure while computing one stop does
\* not abort the batch: the other selected stops have their regions stored
\* in isochroneData, and the failure is reported.
C9_StopFailureIsolated ==
    (idxPc = "settled" /\ runFailed # {}) =>
        /\ \A stop \in Range(runStops) \ runFailed : stop \in DOMAIN isochroneData
        /\ "Calculation Error" \in Range(toasts)

\* C10: a run of calculateIsochrones started with a selected stop and a
\* selected mode completes with isochroneData holding an entry for exactly
\* the selected stops, each the regions of the requested thresholds.
C10_RunStoresRequested ==
    idxPc = "settled" =>
        /\ DOMAIN isochroneData = Range(runStops)
        /\ \A stop \in DOMAIN isochroneData :
              ContoursOf(isochroneData[stop]) = RequestedThresholds(runRadius)

\* The thresholds of the regions computed for a stop in the latest run
ComputedContours(stop) == ContoursOf(newIsochroneData[stop])

\* C11: for every time radius of the slider, every region that
\* calculateIsochrones computes or stores has a threshold in {15, 30, 45, 60}
\* that is at most the time radius of the run.
C11_ThresholdsWithinRadius ==
    /\ timeRadiusMinutes \in TimeRadii
    /\ \A stop \in DOMAIN newIsochroneData :
          \A t \in Range(ComputedContours(stop)) :
              t \in {15, 30, 45, 60} /\ t <= runRadius
    /\ idxPc = "settled" =>
          \A stop \in DOMAIN isochroneData :
              \A t \in Range(ContoursOf(isochroneData[stop])) :
                  t \in {15, 30, 45, 60} /\ t <= runRadius

\* A toast other than the progress and completion notices
ErrorSurfaced ==
    \E i \in 1..Len(toasts) : toasts[i] \notin {"Calculating", "Calculation Complete"}

\* C12: calculateIsochrones invoked with an empty mode filter, or with a time
\* radius below every threshold (an empty threshold list), surfaces a
\* configuration error and attempts no isochrone computation.
C12_ConfigurationError ==
    /\ (idxPc = "returned" /\ selectedModes = {}) =>
          ErrorSurfaced /\ newIsochroneData = <<>>
    /\ (idxPc \in {"loop", "settled"} /\ RequestedThresholds(runRadius) = <<>>) =>
          newIsochroneData = <<>> /\ (idxPc = "settled" => ErrorSurfaced)

(***************************************************************************)
(* interpolateWithTIN, the interpolation of one grid point (lines 97-140), *)
(* with findNearestPoints (196-212) and pointInTriangle (215-240).         *)
(* Coordinates are integer pairs.  Arithmetic is exact: a number is a      *)
(* fraction num/den, or one of the IEEE values Infinity, -Infinity, NaN    *)
(* that 1 / 0 and the operations on it give.  turf.distance is modelled by *)
(* the planar distance (its square, as the code squares it): both are 0    *)
(* exactly for equal coordinates and order the points alike.  turf.tin is  *)
(* the Delaunay triangulation of the points; the order of tin.features is  *)
(* the library's, so any triangle that contains the grid point can be the  *)
(* first one found.                                                        *)
(***************************************************************************)
MaxAnchors == 3

Coords == {<<0, 0>>, <<4, 0>>, <<0, 4>>, <<1, 1>>}
GridCoords == Coords \cup {<<2, 1>>, <<5, 5>>}
AnchorTimes == {0, 10, 20}

Anchor == [coord : Coords, travelTime : AnchorTimes]

\* points.features: at least one point, no two at the same coordinates
AnchorLists ==
    {a \in UNION {[1..n -> Anchor] : n \in 1..MaxAnchors} :
        \A i, j \in 1..Len(a) : a[i].coord = a[j].coord => i = j}

RECURSIVE Gcd(_, _)
Gcd(a, b) == IF b = 0 THEN a ELSE Gcd(b, a % b)

\* the fraction n/d (d > 0) in lowest terms
Finite(n, d) ==
    LET g == Gcd(IF n < 0 THEN -n ELSE n, d)
    IN [kind |-> "finite", num |-> n \div g, den |-> d \div g]
Infinity == [kind |-> "Infinity", num |-> 0, den |-> 1]
NegInfinity == [kind |-> "-Infinity", num |-> 0, den |-> 1]
NaN == [kind |-> "NaN", num |-> 0, den |-> 1]

\* a + b
FAdd(a, b) ==
    CASE a.kind = "NaN" \/ b.kind = "NaN" -> NaN
      [] a.kind = "Infinity" -> IF b.kind = "-Infinity" THEN NaN ELSE Infinity
      [] a.kind = "-Infinity" -> IF b.kind = "Infinity" THEN NaN ELSE NegInfinity
      [] b.kind # "finite" -> b
      [] OTHER -> Finite(a.num * b.den + b.num * a.den, a.den * b.den)

\* w * t for a weight w >= 0 and an integer t
FMul(w, t) ==
    CASE w.kind = "NaN" -> NaN
      [] w.kind = "Infinity" ->
            IF t = 0 THEN NaN ELSE IF t > 0 THEN Infinity ELSE NegInfinity
      [] OTHER -> Finite(w.num * t, w.den)

\* a / b for b > 0
FDiv(a, b) ==
    CASE a.kind = "NaN" \/ b.kind = "NaN" -> NaN
      [] b.kind = "Infinity" -> IF a.kind = "finite" THEN Finite(0, 1) ELSE NaN
      [] a.kind # "finite" -> a
      [] OTHER -> Finite(a.num * b.den, a.den * b.num)

\* line 130: 1 / (distance * distance)
InverseSquare(d2) == IF d2 = 0 THEN Infinity ELSE Finite(1, d2)

\* lines 204-208: distance * distance between two coordinates
Distance2(a, b) == (a[1] - b[1]) * (a[1] - b[1]) + (a[2] - b[2]) * (a[2] - b[2])

\* line 210: the sort by distance is stable: a point goes after the points
\* that are not farther
RECURSIVE InsertByDistance(_, _)
InsertByDistance(sorted, e) ==
    IF sorted = <<>> THEN <<e>>
    ELSE IF sorted[1].distance2 <= e.distance2
         THEN <<sorted[1]>> \o InsertByDistance(Tail(sorted), e)
         ELSE <<e>> \o sorted

RECURSIVE SortByDistance(_)
SortByDistance(s) ==
    IF s = <<>> THEN <<>>
    ELSE InsertByDistance(SortByDistance(SubSeq(s, 1, Len(s) - 1)), s[Len(s)])

\* lines 196-212
findNearestPoints(coord, points, count) ==
    LET measured == [i \in 1..Len(points) |->
                        [point |-> points[i], distance2 |-> Distance2(coord, points[i].coord)]]
        sorted == SortByDistance(measured)
    IN SubSeq(sorted, 1, IF Len(sorted) < count THEN Len(sorted) ELSE count)

\* lines 215-240.  u = un / denom and v = vn / denom; denom > 0 for a proper
\* triangle; for a degenerate one invDenom is Infinity, u and v are NaN or
\* infinite and the test is false.
pointInTriangle(point, v1, v2, v3) ==
    LET v0 == <<v3[1] - v1[1], v3[2] - v1[2]>>
        v2v == <<v2[1] - v1[1], v2[2] - v1[2]>>
        pv == <<point[1] - v1[1], point[2] - v1[2]>>
        dot00 == v0[1] * v0[1] + v0[2] * v0[2]
        dot01 == v0[1] * v2v[1] + v0[2] * v2v[2]
        dot02 == v0[1] * pv[1] + v0[2] * pv[2]
        dot11 == v2v[1] * v2v[1] + v2v[2] * v2v[2]
        dot12 == v2v[1] * pv[1] + v2v[2] * pv[2]
        denom == dot00 * dot11 - dot01 * dot01
        un == dot11 * dot02 - dot01 * dot12
        vn == dot00 * dot12 - dot01 * dot02
    IN denom > 0 /\ un >= 0 /\ vn >= 0 /\ un + vn <= denom

\* twice the signed area of the triangle a, b, c
Orientation(a, b, c) == (b[1] - a[1]) * (c[2] - a[2]) - (b[2] - a[2]) * (c[1] - a[1])

\* the in-circle determinant of a, b, c against d
InCircle(a, b, c, d) ==
    LET ax == a[1] - d[1]
        ay == a[2] - d[2]
        bx == b[1] - d[1]
        by == b[2] - d[2]
        cx == c[1] - d[1]
        cy == c[2] - d[2]
        a2 == ax * ax + ay * ay
        b2 == bx * bx + by * by
        c2 == cx * cx + cy * cy
    IN ax * (by * c2 - b2 * cy) - ay * (bx * c2 - b2 * cx) + a2 * (bx * cy - by * cx)

\* line 82: turf.tin(points, 'travelTime'): the triangles of three points
\* whose circumcircle has no other point inside; each carries its vertices
\* and, in properties.points, the points they come from
Tin(points) ==
    {[v1 |-> points[t[1]].coord, v2 |-> points[t[2]].coord, v3 |-> points[t[3]].coord,
      points |-> <<points[t[1]], points[t[2]], points[t[3]]>>] :
        t \in {t \in (1..Len(points)) \X (1..Len(points)) \X (1..Len(points)) :
                 /\ t[1] < t[2] /\ t[2] < t[3]
                 /\ Orientation(points[t[1]].coord, points[t[2]].coord, points[t[3]].coord) # 0
                 /\ \A k \in 1..Len(points) :
                       InCircle(points[t[1]].coord, points[t[2]].coord, points[t[3]].coord,
                                points[k].coord)
                         * Orientation(points[t[1]].coord, points[t[2]].coord,
                                       points[t[3]].coord) <= 0}}

\* lines 104-108: the triangles that contain the grid point
TrianglesAt(points, coord) ==
    {triangle \in Tin(points) : pointInTriangle(coord, triangle.v1, triangle.v2, triangle.v3)}

RECURSIVE SumTimes(_)
SumTimes(travelTimes) ==
    IF travelTimes = <<>> THEN 0 ELSE travelTimes[1] + SumTimes(Tail(travelTimes))

\* lines 112-117: the average of the vertices' travel times
AverageTime(triangle) ==
    LET travelTimes == [i \in 1..Len(triangle.points) |-> triangle.points[i].travelTime]
    IN Finite(SumTimes(travelTimes), Len(travelTimes))

\* lines 126-133: weightSum and weightedTimeSum over the nearest points
RECURSIVE WeightSums(_)
WeightSums(nearest) ==
    IF nearest = <<>> THEN [weightSum |-> Finite(0, 1), weightedTimeSum |-> Finite(0, 1)]
    ELSE LET before == WeightSums(SubSeq(nearest, 1, Len(nearest) - 1))
             last == nearest[Len(nearest)]
             weight == InverseSquare(last.distance2)
         IN [weightSum |-> FAdd(before.weightSum, weight),
             weightedTimeSum |-> FAdd(before.weightedTimeSum,
                                      FMul(weight, last.point.travelTime))]

\* lines 123-137
InverseDistanceTime(points, coord) ==
    LET nearestPoints == findNearestPoints(coord, points, 3)
        sums == WeightSums(nearestPoints)
    IN IF Len(nearestPoints) > 0 THEN FDiv(sums.weightedTimeSum, sums.weightSum)
       ELSE Infinity

InitTin ==
    /\ tinPoints \in AnchorLists
    /\ tinCoord \in GridCoords
    /\ tinTime = [kind |-> "pending", num |-> 0, den |-> 1]
    /\ tinPc = "start"
    /\ ConnIdle /\ IsoIdle /\ CalcIdle /\ IdxIdle /\ ColorIdle /\ FilterIdle /\ MoreIdle

TinUnchanged ==
    UNCHANGED <<tinPoints, tinCoord, connVars, isoVars, calcVars, idxVars, colorVars,
                filterVars, moreVars>>

\* lines 104-120: a triangle contains the grid point
AverageOverTriangle ==
    /\ tinPc = "start"
    /\ \E triangle \in TrianglesAt(tinPoints, tinCoord) :
          tinTime' = AverageTime(triangle)
    /\ tinPc' = "done"
    /\ TinUnchanged

\* lines 123-137: no triangle contains the grid point
InverseDistanceWeighting ==
    /\ tinPc = "start"
    /\ TrianglesAt(tinPoints, tinCoord) = {}
    /\ tinTime' = InverseDistanceTime(tinPoints, tinCoord)
    /\ tinPc' = "done"
    /\ TinUnchanged

NextTin == AverageOverTriangle \/ InverseDistanceWeighting

SpecTin == InitTin /\ [][NextTin]_vars

(***************************************************************************)
(* Claims about the interpolation (checked under SpecTin).                 *)
(***************************************************************************)
AnchorsAt(coord) == {i \in 1..Len(tinPoints) : tinPoints[i].coord = coord}

\* C13: anchored interpolation is exact at anchors: the travel time given to
\* a query point at an anchor's own coordinates is that anchor's recorded
\* travelTime, in a triangle of the triangulation and in the
\* inverse-distance fallback alike.
C13_ExactAtAnchors ==
    tinPc = "done" =>
        \A i \in AnchorsAt(tinCoord) :
            /\ tinTime.kind = "finite"
            /\ tinTime.num = tinPoints[i].travelTime * tinTime.den

(***************************************************************************)
(* generateSimulatedPoints and calculateSimulatedTravelTime                *)
(* (pointGeneration.ts 16-72).  The options are a record of the fields     *)
(* that are given; a field that is not given takes its default.  A point   *)
(* is named by its bearing and distance from the origin                    *)
(* (turf.destination).                                                     *)
(***************************************************************************)
DEFAULT_OPTIONS ==
    [maxDistance |-> 15, numRadials |-> 24, pointsPerRadial |-> 10, averageSpeedKmh |-> 30]

\* lines 20-25: destructuring with defaults
OptionOr(options, name) ==
    IF name \in DOMAIN options THEN options[name] ELSE DEFAULT_OPTIONS[name]

\* Mutant of calculateSimulatedTravelTime: the time in hours, not minutes.
calculateSimulatedTravelTimeHours(distance, averageSpeedKmh) ==
    IF averageSpeedKmh = 0
    THEN IF distance.num = 0 THEN NaN ELSE Infinity
    ELSE Finite(distance.num, distance.den * averageSpeedKmh)

\* lines 66-72: (distance / averageSpeedKmh) * 60, distance a fraction >= 0
calculateSimulatedTravelTime(distance, averageSpeedKmh) ==
    IF averageSpeedKmh = 0
    THEN IF distance.num = 0 THEN NaN ELSE Infinity
    ELSE Finite(distance.num * 60, distance.den * averageSpeedKmh)

\* lines 27-56: the origin as it is, then numRadials * pointsPerRadial points
generateSimulatedPoints(origin, options) ==
    LET maxDistance == OptionOr(options, "maxDistance")
        numRadials == OptionOr(options, "numRadials")
        pointsPerRadial == OptionOr(options, "pointsPerRadial")
        averageSpeedKmh == OptionOr(options, "averageSpeedKmh")
        Simulated(i, j) ==
            LET distance == Finite(j * maxDistance, pointsPerRadial)
            IN [origin |-> origin,
                bearing |-> Finite(i * 360, numRadials),
                distance |-> distance,
                hasTravelTime |-> TRUE,
                travelTime |-> calculateSimulatedTravelTime(distance, averageSpeedKmh)]
    IN <<[origin |-> origin, bearing |-> Finite(0, 1), distance |-> Finite(0, 1),
          hasTravelTime |-> FALSE, travelTime |-> Finite(0, 1)]>>
       \o [k \in 1..(numRadials * pointsPerRadial) |->
              Simulated((k - 1) \div pointsPerRadial, ((k - 1) % pointsPerRadial) + 1)]

(***************************************************************************)
(* More claims about calculateIsochrone (checked under SpecCalc).          *)
(***************************************************************************)
\* the samples of calculateIsochrone are those of the radial sampler
SamplesAreRadial ==
    LET radial == generateSimulatedPoints(calcStop, <<>>)
    IN /\ Len(calcPoints) = Len(radial)
       /\ \A k \in 2..Len(radial) :
             Finite(calcPoints[k].travelTime, 1) = radial[k].travelTime

\* C14: for an origin with zero scheduled visits (an empty connectivity
\* result) calculateIsochrone returns a non-empty polygon for every requested
\* threshold, and its samples are those of the radial sampler
\* (generateSimulatedPoints), not anchored interpolation.
C14_ZeroVisitsRadial ==
    (calcPc = "done" /\ calcConnected = <<>>) =>
        /\ Len(calcResult) = Len(calcThresholds)
        /\ \A i \in 1..Len(calcResult) : calcResult[i].kind \in {"isolines", "circle"}
        /\ SamplesAreRadial

(***************************************************************************)
(* More claims about getConnectedStops (checked under SpecConn).           *)
(***************************************************************************)
OriginHasNoVisit == \A i \in 1..Len(stopTimes) : stopTimes[i].stop_id # startStopId

\* C15: getConnectedStops for an origin that has no visit in stopTimes
\* returns the empty list (and raises nothing), whatever the budget.
C15_NoVisitEmpty ==
    (connPc = "done" /\ OriginHasNoVisit) => connectedStops = <<>>

\* C15 witness: the call has returned the empty list for a table in which a
\* trip visits two other stops within the budget and none visits the origin.
C15_Witness ==
    /\ connPc = "done"
    /\ OriginHasNoVisit
    /\ \E i, j \in 1..Len(stopTimes) :
          /\ i < j
          /\ stopTimes[i].trip_id = stopTimes[j].trip_id
          /\ stopTimes[i].stop_id # stopTimes[j].stop_id
          /\ Departure(stopTimes[j]) - Departure(stopTimes[i]) <= timeRadius
    /\ connectedStops = <<>>

\* the trips with a row at stop s
TripsVisiting(s) == {stopTimes[i].trip_id : i \in {k \in 1..Len(stopTimes) : stopTimes[k].stop_id = s}}

SharesTripWithOrigin(s) == TripsVisiting(s) \cap TripsVisiting(startStopId) # {}

\* stop s is reached from the origin within the budget by riding a trip to
\* stop x and changing there to a second trip
ReachedByTransfer(s) ==
    \E a, b, c, d \in 1..Len(stopTimes) :
        /\ stopTimes[a].stop_id = startStopId
        /\ stopTimes[b].trip_id = stopTimes[a].trip_id
        /\ stopTimes[c].stop_id = stopTimes[b].stop_id
        /\ stopTimes[c].trip_id # stopTimes[a].trip_id
        /\ stopTimes[d].trip_id = stopTimes[c].trip_id
        /\ stopTimes[d].stop_id = s
        /\ Departure(stopTimes[a]) <= Departure(stopTimes[b])
        /\ Departure(stopTimes[b]) <= Departure(stopTimes[c])
        /\ Departure(stopTimes[c]) <= Departure(stopTimes[d])
        /\ Departure(stopTimes[d]) - Departure(stopTimes[a]) <= timeRadius

\* C16: getConnectedStops models single-trip reachability only: every stop of
\* its result has a visit on a trip that also visits the origin; a stop that
\* shares no trip with the origin is never in the result, even when a change
\* to a second trip reaches it within the budget.
C16_SingleTripOnly ==
    connPc = "done" =>
        /\ \A i \in 1..Len(connectedStops) : SharesTripWithOrigin(connectedStops[i].stopId)
        /\ \A s \in AllStopIds :
              ~SharesTripWithOrigin(s) => ~MapHas(connectedStops, s)

\* C16 witness: a stop that a transfer reaches within the budget shares no
\* trip with the origin and is absent from the (non-empty) result.
C16_Witness ==
    /\ connPc = "done"
    /\ connectedStops # <<>>
    /\ \E s \in AllStopIds :
          /\ ReachedByTransfer(s)
          /\ ~SharesTripWithOrigin(s)
          /\ ~MapHas(connectedStops, s)

(***************************************************************************)
(* getColorForTime (isochroneGenerator.ts, DOCUMENTATION.md 212-217), for  *)
(* whole minutes.                                                          *)
(***************************************************************************)
MaxMinutes == 100

MinuteValues == 0..MaxMinutes

\* Mutant of getColorForTime: the bucket bounds are exclusive.
getColorForTimeExclusive(minutes) ==
    IF minutes < 15 THEN "#1a9641"
    ELSE IF minutes < 30 THEN "#a6d96a"
    ELSE IF minutes < 45 THEN "#ffffc0"
    ELSE "#fdae61"

\* lines 212-217
getColorForTime(minutes) ==
    IF minutes <= 15 THEN "#1a9641"
    ELSE IF minutes <= 30 THEN "#a6d96a"
    ELSE IF minutes <= 45 THEN "#ffffc0"
    ELSE "#fdae61"

InitColor ==
    /\ colorMinutes \in MinuteValues
    /\ colorResult = ""
    /\ colorPc = "start"
    /\ ConnIdle /\ IsoIdle /\ CalcIdle /\ IdxIdle /\ TinIdle /\ FilterIdle /\ MoreIdle

CallGetColorForTime ==
    /\ colorPc = "start"
    /\ colorResult' = getColorForTime(colorMinutes)
    /\ colorPc' = "done"
    /\ UNCHANGED <<colorMinutes, connVars, isoVars, calcVars, idxVars, tinVars, filterVars,
                   moreVars>>

NextColor == CallGetColorForTime

SpecColor == InitColor /\ [][NextColor]_vars

\* C17: getColorForTime is a total four-bucket function: minutes <= 15 gives
\* green #1a9641, 15 < minutes <= 30 light green #a6d96a, 30 < minutes <= 45
\* pale yellow #ffffc0, minutes > 45 orange #fdae61, and nothing else is
\* ever returned.
C17_FourBuckets ==
    colorPc = "done" =>
        /\ colorResult \in {"#1a9641", "#a6d96a", "#ffffc0", "#fdae61"}
        /\ colorMinutes <= 15 <=> colorResult = "#1a9641"
        /\ (15 < colorMinutes /\ colorMinutes <= 30) <=> colorResult = "#a6d96a"
        /\ (30 < colorMinutes /\ colorMinutes <= 45) <=> colorResult = "#ffffc0"
        /\ colorMinutes > 45 <=> colorResult = "#fdae61"

\* C17 witness: the colour of the bucket bound 30 has been computed.
C17_Witness ==
    /\ colorPc = "done"
    /\ colorMinutes = 30
    /\ colorResult = "#a6d96a"

\* C18: every region produced for a stop and a threshold, by the TIN path or
\* by a fallback, is tagged with its threshold, the origin stop id and the
\* palette colour of its threshold.
C18_RegionTagged ==
    calcPc = "done" =>
        \A i \in 1..Len(calcResult) :
            LET properties == calcResult[i].properties
            IN /\ properties.contour = calcThresholds[i]
               /\ "originStopId" \in DOMAIN properties
               /\ properties.originStopId = calcStop
               /\ "color" \in DOMAIN properties
               /\ properties.color = getColorForTime(calcThresholds[i])

(***************************************************************************)
(* filterRoutesByMode (gtfsParser.ts 214-230).  route_type is a string     *)
(* (types/gtfs.ts 24), so route_type.toString() is the string itself.      *)
(***************************************************************************)
MaxRoutes == 2
MaxModes == 2

RouteIds == {"R1", "R2"}
RouteTypes == {"0", "1", "2", "3", "4", "100"}

Route == [route_id : RouteIds, route_type : RouteTypes]

RouteLists == UNION {[1..n -> Route] : n \in 0..MaxRoutes}

ModeLists == UNION {[1..n -> Modes] : n \in 0..MaxModes}

\* Mutant of modeToRouteType: rail without the extended codes 100..109.
modeToRouteTypeBasicRail(mode) ==
    CASE mode = "bus" -> <<"3">>
      [] mode = "subway" -> <<"1">>
      [] mode = "tram" -> <<"0">>
      [] mode = "rail" -> <<"2">>

\* lines 218-223
modeToRouteType(mode) ==
    CASE mode = "bus" -> <<"3">>
      [] mode = "subway" -> <<"1">>
      [] mode = "tram" -> <<"0">>
      [] mode = "rail" -> <<"2", "100", "101", "102", "103", "104", "105",
                            "106", "107", "108", "109">>

\* line 225: selectedModes.flatMap(mode => modeToRouteType[mode])
RECURSIVE FlatMapRouteTypes(_)
FlatMapRouteTypes(modes) ==
    IF modes = <<>> THEN <<>>
    ELSE modeToRouteType(modes[1]) \o FlatMapRouteTypes(Tail(modes))

\* Array.prototype.includes
Includes(list, value) == \E i \in 1..Len(list) : list[i] = value

\* lines 214-230
filterRoutesByMode(routes, modes) ==
    LET allowedRouteTypes == FlatMapRouteTypes(modes)
    IN SelectSeq(routes, LAMBDA route : Includes(allowedRouteTypes, route.route_type))

InitFilter ==
    /\ routeList \in RouteLists
    /\ modeList \in ModeLists
    /\ filteredRoutes = <<>>
    /\ filterPc = "start"
    /\ ConnIdle /\ IsoIdle /\ CalcIdle /\ IdxIdle /\ TinIdle /\ ColorIdle /\ MoreIdle

CallFilterRoutesByMode ==
    /\ filterPc = "start"
    /\ filteredRoutes' = filterRoutesByMode(routeList, modeList)
    /\ filterPc' = "done"
    /\ UNCHANGED <<routeList, modeList, connVars, isoVars, calcVars, idxVars,
                   tinVars, colorVars, moreVars>>

NextFilter == CallFilterRoutesByMode

SpecFilter == InitFilter /\ [][NextFilter]_vars

(***************************************************************************)
(* Claims about filterRoutesByMode (checked under SpecFilter).             *)
(***************************************************************************)
\* the route-type codes of a mode: bus 3, subway 1, tram 0, rail 2 and 100..109
CodesOfMode(mode) ==
    CASE mode = "bus" -> {"3"}
      [] mode = "subway" -> {"1"}
      [] mode = "tram" -> {"0"}
      [] mode = "rail" -> {"2", "100", "101", "102", "103", "104", "105",
                           "106", "107", "108", "109"}

RouteSelected(route) == \E i \in 1..Len(modeList) : route.route_type \in CodesOfMode(modeList[i])

\* the positions of routeList whose route is selected, ascending
RECURSIVE SelectedPositions(_)
SelectedPositions(n) ==
    IF n = 0 THEN <<>>
    ELSE IF RouteSelected(routeList[n])
         THEN Append(SelectedPositions(n - 1), n)
         ELSE SelectedPositions(n - 1)

\* C19: filterRoutesByMode keeps a route exactly when its route_type is among
\* the codes of a selected mode (bus {3}, subway {1}, tram {0}, rail {2,
\* 100..109}); the kept routes stay in their input order; an empty mode
\* selection yields the empty list.
C19_FilterByMode ==
    filterPc = "done" =>
        LET kept == SelectedPositions(Len(routeList))
        IN /\ Len(filteredRoutes) = Len(kept)
           /\ \A k \in 1..Len(kept) : filteredRoutes[k] = routeList[kept[k]]
           /\ modeList = <<>> => filteredRoutes = <<>>

\* C19 witness: with rail selected, of a bus route followed by a rail route
\* of the extended code 100 only the rail route was kept.
C19_Witness ==
    /\ filterPc = "done"
    /\ Includes(modeList, "rail")
    /\ Len(routeList) = 2
    /\ routeList[1].route_type = "3"
    /\ routeList[2].route_type = "100"
    /\ filteredRoutes = <<routeList[2]>>

(***************************************************************************)
(* The anchor set of calculateIsochrone (checked under SpecCalc).          *)
(***************************************************************************)
\* the positions of calcConnected whose stop id stopsMap knows, ascending
RECURSIVE KnownPositions(_)
KnownPositions(n) ==
    IF n = 0 THEN <<>>
    ELSE IF calcConnected[n].stopId \in calcStopsMap.ids
         THEN Append(KnownPositions(n - 1), n)
         ELSE KnownPositions(n - 1)

\* C20: the anchor set built by calculateIsochrone is one sample per
\* connected stop whose id stopsMap knows, with that stop's travel time, and
\* one sample for the origin with travel time 0; a connected stop with an
\* unknown id is dropped without an error and without changing the other
\* samples; the origin sample is always present.
C20_AnchorSet ==
    /\ calcStopsMap.defined => calcPc # "rejected"
    /\ calcPc \in {"thresholds", "done"} =>
          LET known == KnownPositions(Len(calcConnected))
          IN /\ Len(calcPoints) = Len(known) + 1
             /\ \A k \in 1..Len(known) :
                   /\ calcPoints[k].coord = calcConnected[known[k]].stopId
                   /\ calcPoints[k].travelTime = calcConnected[known[k]].travelTime
             /\ calcPoints[Len(calcPoints)] = [coord |-> calcStop, travelTime |-> 0]

\* C20 witness: of two connected stops stopsMap knows the second only; the
\* anchor set is that stop's sample and the origin's.
C20_Witness ==
    /\ calcPc \in {"thresholds", "done"}
    /\ calcStopsMap.defined
    /\ Len(calcConnected) = 2
    /\ calcConnected[1].stopId \notin calcStopsMap.ids
    /\ calcConnected[2].stopId \in calcStopsMap.ids
    /\ calcPoints = <<[coord |-> calcConnected[2].stopId,
                       travelTime |-> calcConnected[2].travelTime],
                      [coord |-> calcStop, travelTime |-> 0]>>

(***************************************************************************)
(* generateSimulatedPoints called with some of its options given, and the  *)
(* filter of calculateIsochroneForThreshold (DOCUMENTATION.md 151-157)     *)
(* applied to the points it returns.  The origin is a point without a      *)
(* travelTime property, as turf.point gives it.                            *)
(***************************************************************************)
OptionNames == {"maxDistance", "numRadials", "pointsPerRadial", "averageSpeedKmh"}

OptionValues(name) ==
    CASE name = "maxDistance" -> {6}
      [] name = "numRadials" -> {1, 3}
      [] name = "pointsPerRadial" -> {1, 2}
      [] name = "averageSpeedKmh" -> {12, 60}

\* the options objects: any of the fields given, the others left out
OptionRecords ==
    {o \in UNION {[given -> {1, 2, 3, 6, 12, 60}] : given \in SUBSET OptionNames} :
        \A name \in DOMAIN o : o[name] \in OptionValues(name)}

SimThresholds == {5, 15, 30, 45, 60}

\* Mutant of SimQualifies: a sample at exactly the threshold does not qualify.
SimQualifiesStrict(point, timeThreshold) ==
    LET travelTime == IF point.hasTravelTime /\ point.travelTime.kind # "NaN"
                         /\ ~(point.travelTime.kind = "finite" /\ point.travelTime.num = 0)
                      THEN point.travelTime
                      ELSE Finite(0, 1)
    IN /\ travelTime.kind = "finite"
       /\ travelTime.num < timeThreshold * travelTime.den

\* DOCUMENTATION.md 154-155: (point.properties?.travelTime || 0) <= timeThreshold
SimQualifies(point, timeThreshold) ==
    LET travelTime == IF point.hasTravelTime /\ point.travelTime.kind # "NaN"
                         /\ ~(point.travelTime.kind = "finite" /\ point.travelTime.num = 0)
                      THEN point.travelTime
                      ELSE Finite(0, 1)
    IN /\ travelTime.kind = "finite"
       /\ travelTime.num <= timeThreshold * travelTime.den

\* DOCUMENTATION.md 152-157: pointsWithinTime, as the indices kept, in order
SimPointsWithinTime(points, timeThreshold) ==
    SelectSeq([i \in 1..Len(points) |-> i],
              LAMBDA i : SimQualifies(points[i], timeThreshold))

InitSim ==
    /\ simOptions \in OptionRecords
    /\ simThreshold \in SimThresholds
    /\ simPoints = <<>>
    /\ simWithin = <<>>
    /\ simPc = "start"
    /\ CoreIdle /\ PairIdle /\ TimeIdle

SimUnchanged == UNCHANGED <<simOptions, simThreshold, coreVars, pairVars, timeVars>>

\* pointGeneration.ts 16-57
CallGenerateSimulatedPoints ==
    /\ simPc = "start"
    /\ simPoints' = generateSimulatedPoints("O", simOptions)
    /\ simPc' = "generated"
    /\ UNCHANGED simWithin
    /\ SimUnchanged

\* DOCUMENTATION.md 151-157
FilterSimulatedPoints ==
    /\ simPc = "generated"
    /\ simWithin' = SimPointsWithinTime(simPoints, simThreshold)
    /\ simPc' = "filtered"
    /\ UNCHANGED simPoints
    /\ SimUnchanged

NextSim == CallGenerateSimulatedPoints \/ FilterSimulatedPoints

SpecSim == InitSim /\ [][NextSim]_vars

(***************************************************************************)
(* Claims about the radial sampler (checked under SpecSim).                *)
(***************************************************************************)
\* the value of an option: the one given, or the documented default
\* (15 km, 24 radials, 10 points per radial, 30 km/h)
OptionGiven(name) ==
    IF name \in DOMAIN simOptions THEN simOptions[name]
    ELSE CASE name = "maxDistance" -> 15
           [] name = "numRadials" -> 24
           [] name = "pointsPerRadial" -> 10
           [] name = "averageSpeedKmh" -> 30

\* C21: generateSimulatedPoints returns the origin followed by exactly
\* numRadials x pointsPerRadial samples: for i in 0..numRadials-1 and j in
\* 1..pointsPerRadial one sample at bearing i x 360 / numRadials and distance
\* j / pointsPerRadial x maxDistance, with travel time distance /
\* averageSpeedKmh x 60; with the defaults that is 241 samples whose times
\* are 3 x j minutes.
C21_RadialSamples ==
    simPc \in {"generated", "filtered"} =>
        LET maxDistance == OptionGiven("maxDistance")
            numRadials == OptionGiven("numRadials")
            pointsPerRadial == OptionGiven("pointsPerRadial")
            averageSpeedKmh == OptionGiven("averageSpeedKmh")
        IN /\ Len(simPoints) = 1 + numRadials * pointsPerRadial
           /\ simPoints[1].origin = "O"
           /\ simPoints[1].distance = Finite(0, 1)
           /\ ~simPoints[1].hasTravelTime
           /\ \A i \in 0..(numRadials - 1), j \in 1..pointsPerRadial :
                 LET point == simPoints[1 + i * pointsPerRadial + j]
                 IN /\ point.origin = "O"
                    /\ point.bearing.num * numRadials = i * 360 * point.bearing.den
                    /\ point.distance.num * pointsPerRadial
                          = j * maxDistance * point.distance.den
                    /\ point.hasTravelTime
                    /\ point.travelTime.kind = "finite"
                    /\ point.travelTime.num * pointsPerRadial * averageSpeedKmh
                          = j * maxDistance * 60 * point.travelTime.den
           /\ simOptions = <<>> =>
                 /\ Len(simPoints) = 241
                 /\ \A i \in 0..23, j \in 1..10 :
                       simPoints[1 + i * 10 + j].travelTime = Finite(3 * j, 1)

\* C21 witness: the call without options has returned its 241 samples, the
\* last of them at 30 minutes.
C21_Witness ==
    /\ simPc = "generated"
    /\ simOptions = <<>>
    /\ Len(simPoints) = 241
    /\ simPoints[241].travelTime = Finite(30, 1)

\* the samples that qualify for threshold t, as a set of indices
QualifyingFor(t) == Range(SimPointsWithinTime(simPoints, t))

\* C29: with the radial sampler the largest simulated travel time is
\* maxDistance / averageSpeedKmh x 60 (30 minutes with the defaults); the set
\* of samples qualifying for a threshold grows monotonically with the
\* threshold; every threshold at or above the largest time (30, 45 and 60
\* with the defaults) qualifies the full set of 1 + numRadials x
\* pointsPerRadial samples.
C29_RadialMonotone ==
    simPc \in {"generated", "filtered"} =>
        LET maxDistance == OptionGiven("maxDistance")
            averageSpeedKmh == OptionGiven("averageSpeedKmh")
            count == 1 + OptionGiven("numRadials") * OptionGiven("pointsPerRadial")
            AtLargest(k) ==
                simPoints[k].travelTime.num * averageSpeedKmh
                    = maxDistance * 60 * simPoints[k].travelTime.den
        IN /\ \A k \in 2..Len(simPoints) :
                 simPoints[k].travelTime.num * averageSpeedKmh
                     <= maxDistance * 60 * simPoints[k].travelTime.den
           /\ \E k \in 2..Len(simPoints) : AtLargest(k)
           /\ \A t1, t2 \in SimThresholds :
                 t1 <= t2 => QualifyingFor(t1) \subseteq QualifyingFor(t2)
           /\ \A t \in SimThresholds :
                 t * averageSpeedKmh >= maxDistance * 60 => QualifyingFor(t) = 1..count
           /\ (simPc = "filtered" /\ simThreshold * averageSpeedKmh >= maxDistance * 60) =>
                 simWithin = [i \in 1..count |-> i]
           /\ simOptions = <<>> =>
                 /\ simPoints[Len(simPoints)].travelTime = Finite(30, 1)
                 /\ \A t \in {30, 45, 60} : QualifyingFor(t) = 1..241

\* C29 witness: the default samples were filtered for 30 minutes and all 241
\* qualified, while fewer qualify for 15 minutes.
C29_Witness ==
    /\ simPc = "filtered"
    /\ simOptions = <<>>
    /\ simThreshold = 30
    /\ Len(simWithin) = 241
    /\ Cardinality(QualifyingFor(15)) < 241

(***************************************************************************)
(* More claims about calculateIsochroneForThreshold (checked under         *)
(* SpecIso).                                                               *)
(***************************************************************************)
StrategyOrder == <<"concave", "convex", "circle">>

\* C22: with more than 3 qualifying samples the strategies are tried in a
\* fixed order and the first success wins: the concave hull first, the
\* convex hull only after the concave hull has failed, the circle only after
\* the convex hull has also failed; a strategy that succeeded is never
\* followed by a later one.
C22_StrategyOrder ==
    (isoPc \notin {"start", "idle"} /\ Len(isoWithin) > 3) =>
        /\ Len(isoLog) <= 3
        /\ \A i \in 1..Len(isoLog) :
              /\ isoLog[i].strategy = StrategyOrder[i]
              /\ i < Len(isoLog) => isoLog[i].outcome = "throws"
              /\ isoLog[i].outcome = "polygon" => i = Len(isoLog) /\ isoPc = "done"
        /\ isoPc = "catchConcave" => isoLog = <<[strategy |-> "concave", outcome |-> "throws"]>>
        /\ isoPc = "catchConvex" => Len(isoLog) = 2
        /\ isoPc = "done" => Len(isoLog) >= 1 \/ ~isoOrigin.present
        /\ (isoPc = "done" /\ isoResult.kind \in {"concave", "convex", "circle"}) =>
              /\ isoLog[Len(isoLog)].strategy = isoResult.kind
              /\ isoLog[Len(isoLog)].outcome = "polygon"

\* C22 witness: both hulls failed in turn and the circle was produced.
C22_Witness ==
    /\ isoPc = "done"
    /\ Len(isoWithin) > 3
    /\ isoLog = <<[strategy |-> "concave", outcome |-> "throws"],
                  [strategy |-> "convex", outcome |-> "throws"],
                  [strategy |-> "circle", outcome |-> "polygon"]>>
    /\ isoResult.kind = "circle"

(***************************************************************************)
(* Further claims about getConnectedStops (checked under SpecConn).        *)
(***************************************************************************)
\* C23: every travel time in the result of getConnectedStops (and so of the
\* anchor samples built from it) is >= 0, for every schedule whose visits
\* are time-ordered within each trip, trips that visit the origin more than
\* once included.
C23_TravelTimeNonNegative ==
    connPc = "done" =>
        \A i \in 1..Len(connectedStops) : connectedStops[i].travelTime >= 0

\* The walks of lines 264-299 without their breaks: every stop after (before)
\* the starting index is visited and only the test elapsed <= budget decides.
RECURSIVE ForwardWalkToEnd(_, _, _, _, _)
ForwardWalkToEnd(stopsOnTrip, i, departureTime, radius, m) ==
    IF i > Len(stopsOnTrip) THEN m
    ELSE LET currentStop == stopsOnTrip[i]
             travelTime == parseTimeToMinutes(currentStop.departure_time) - departureTime
         IN ForwardWalkToEnd(stopsOnTrip, i + 1, departureTime, radius,
                IF WithinRadius(travelTime, radius)
                THEN Retain(m, currentStop.stop_id, travelTime) ELSE m)

RECURSIVE BackwardWalkToEnd(_, _, _, _, _)
BackwardWalkToEnd(stopsOnTrip, i, departureTime, radius, m) ==
    IF i < 1 THEN m
    ELSE LET currentStop == stopsOnTrip[i]
             travelTime == departureTime - parseTimeToMinutes(currentStop.departure_time)
         IN BackwardWalkToEnd(stopsOnTrip, i - 1, departureTime, radius,
                IF WithinRadius(travelTime, radius)
                THEN Retain(m, currentStop.stop_id, travelTime) ELSE m)

ProcessTripToEnd(entry, start, sts, radius, m) ==
    LET stopsOnTrip == StopsOnTrip(entry.tripId, sts)
        startStopIndex == StartStopIndex(stopsOnTrip, start)
    IN IF startStopIndex # 0
       THEN BackwardWalkToEnd(stopsOnTrip, startStopIndex - 1, entry.departureTime, radius,
                ForwardWalkToEnd(stopsOnTrip, startStopIndex + 1, entry.departureTime,
                                 radius, m))
       ELSE m

RECURSIVE ForEachTripToEnd(_, _, _, _, _, _)
ForEachTripToEnd(through, k, start, sts, radius, m) ==
    IF k > Len(through) THEN m
    ELSE ForEachTripToEnd(through, k + 1, start, sts, radius,
                          ProcessTripToEnd(through[k], start, sts, radius, m))

getConnectedStopsToEnd(start, sts, radius) ==
    ForEachTripToEnd(TripsThroughStop(start, sts), 1, start, sts, radius, <<>>)

\* C24: the early exit of the walks is safe: for every schedule and budget
\* the result with the break at the first visit whose elapsed time exceeds
\* the budget equals the result of the same walks continued to the ends of
\* the trip with only the test elapsed <= budget applied.
C24_EarlyExitSafe ==
    connPc = "done" =>
        connectedStops = getConnectedStopsToEnd(startStopId, stopTimes, timeRadius)

\* C24 witness: a walk broke off before the end of the trip: a visit after
\* the origin lies beyond the budget, one before it within, and the result
\* holds only the latter.
C24_Witness ==
    /\ connPc = "done"
    /\ \E t \in TripIds :
          \E o, v, w \in 1..Len(TripVisits(t)) :
              /\ o < v /\ v < w
              /\ TripVisits(t)[o].stop_id = startStopId
              /\ Departure(TripVisits(t)[v]) - Departure(TripVisits(t)[o]) <= timeRadius
              /\ Departure(TripVisits(t)[w]) - Departure(TripVisits(t)[o]) > timeRadius
              /\ MapHas(connectedStops, TripVisits(t)[v].stop_id)
              /\ ~MapHas(connectedStops, TripVisits(t)[w].stop_id)

\* C25: when interpolateWithTIN finds no isoline, the circle it returns is
\* centred on the origin stop's coordinates, also when a connected stop other
\* than the origin has travel time 0.
C25_CircleOnOrigin ==
    calcPc = "done" =>
        \A i \in 1..Len(calcResult) :
            calcOutcomes[i] = "noIsolines" =>
                /\ calcResult[i].kind = "circle"
                /\ calcResult[i].center = calcStop

(***************************************************************************)
(* Two calls of getConnectedStops (gtfsParser.ts 233-308) with the same    *)
(* startStopId, stopTimes and timeRadius and with different trips and      *)
(* routes.  The routes passed are what filterRoutesByMode keeps of the     *)
(* feed's routes for a selection of modes.                                 *)
(***************************************************************************)
MaxPairVisits == 2

Trip == [trip_id : TripIds, route_id : RouteIds]

\* trips.txt of the feed: T1 runs on R1, T2 on R2; or no trips at all
PairTrips == <<[trip_id |-> "T1", route_id |-> "R1"], [trip_id |-> "T2", route_id |-> "R2"]>>

TripLists == {<<>>, PairTrips}

\* routes.txt of the feed: R1 is a tram line, R2 a bus line
PairRouteList == <<[route_id |-> "R1", route_type |-> "0"],
                   [route_id |-> "R2", route_type |-> "3"]>>

PairModeLists == {<<>>, <<"tram">>, <<"bus">>, <<"tram", "bus">>}

\* A variant that reads trips and routes: only the rows of trips whose route
\* is among the routes passed count.
getConnectedStopsOnRoutes(start, sts, trips, routes, radius) ==
    LET onRoutes(st) ==
            \E i \in 1..Len(trips) :
                /\ trips[i].trip_id = st.trip_id
                /\ \E j \in 1..Len(routes) : routes[j].route_id = trips[i].route_id
    IN getConnectedStops(start, SelectSeq(sts, onRoutes), radius)

\* lines 233-239: the full parameter list; the body (240-307) reads
\* startStopId, stopTimes and timeRadius only
getConnectedStopsCall(start, sts, trips, routes, radius) ==
    getConnectedStops(start, sts, radius)

InitPair ==
    /\ pairStopTimes \in Feeds(MaxPairVisits)
    /\ pairRadius \in Budgets
    /\ pairTrips \in [1..2 -> TripLists]
    /\ \E m1, m2 \in PairModeLists :
          pairRoutes = <<filterRoutesByMode(PairRouteList, m1),
                         filterRoutesByMode(PairRouteList, m2)>>
    /\ pairResults = <<>>
    /\ pairPc = "first"
    /\ CoreIdle /\ SimIdle /\ TimeIdle

PairUnchanged ==
    UNCHANGED <<pairStopTimes, pairRadius, pairTrips, pairRoutes, coreVars, simVars, timeVars>>

CallWithFirstArguments ==
    /\ pairPc = "first"
    /\ pairResults' = <<getConnectedStopsCall("O", pairStopTimes, pairTrips[1],
                                              pairRoutes[1], pairRadius)>>
    /\ pairPc' = "second"
    /\ PairUnchanged

CallWithSecondArguments ==
    /\ pairPc = "second"
    /\ pairResults' = Append(pairResults,
                             getConnectedStopsCall("O", pairStopTimes, pairTrips[2],
                                                   pairRoutes[2], pairRadius))
    /\ pairPc' = "done"
    /\ PairUnchanged

NextPair == CallWithFirstArguments \/ CallWithSecondArguments

SpecPair == InitPair /\ [][NextPair]_vars

\* C26: two calls of getConnectedStops with the same startStopId, stopTimes
\* and timeRadius and different trips and routes (the routes kept by
\* different mode filters) return the same result.
C26_IgnoresTripsAndRoutes ==
    pairPc = "done" => pairResults[1] = pairResults[2]

\* C26 witness: the two calls got different routes (all routes; none) and
\* different trips, and both returned the same non-empty result.
C26_Witness ==
    /\ pairPc = "done"
    /\ pairRoutes[1] = PairRouteList
    /\ pairRoutes[2] = <<>>
    /\ pairTrips[1] # pairTrips[2]
    /\ pairResults[1] # <<>>
    /\ pairResults[1] = pairResults[2]

\* No run of calculateIsochrones is between its setIsLoading(true) and its
\* setIsLoading(false).
NoCalculationInProgress == ~isLoading /\ idxPc # "loop"

\* C27: under every interleaving of select-stop, remove-stop, toggle-mode,
\* change-radius and calculate that the controls allow, whenever no
\* calculation is in progress every key of isochroneData is the id of a
\* currently selected stop; and a step in which a stop leaves the selection
\* removes its isochroneData entry in that same step.
C27_KeysAreSelectedStops ==
    /\ [](NoCalculationInProgress => DOMAIN isochroneData \subseteq Range(selectedStops))
    /\ [][\A stop \in Stops :
             (stop \in Range(selectedStops) /\ stop \notin Range(selectedStops'))
                 => stop \notin DOMAIN isochroneData']_vars

\* C27 witness: a run over S1 and S2 stored both entries, then S1 was
\* removed: S2 is selected and isochroneData holds S2's entry only.
C27_Witness ==
    /\ NoCalculationInProgress
    /\ runStops = <<"S1", "S2">>
    /\ runFailed = {}
    /\ selectedStops = <<"S2">>
    /\ DOMAIN isochroneData = {"S2"}

(***************************************************************************)
(* Progress of a run of calculateIsochrones.  The function is async: after *)
(* setIsLoading(true) its continuation (the loop body after each await,    *)
(* the catch and the finally block) is scheduled by the event loop as soon *)
(* as the awaited promise settles, and every awaited call returns or       *)
(* raises.  The steps of a started run are therefore weakly fair; the      *)
(* user's actions are not.                                                 *)
(***************************************************************************)
SpecIndexLive ==
    SpecIndex /\ WF_vars(CalculateForStop) /\ WF_vars(FinishCalculateIsochrones)

\* C28: every run of calculateIsochrones that sets isLoading to true
\* eventually sets it back to false, when all stops succeed and when a
\* stop's computation raises; and a run that returns early (no selected stop
\* or no selected mode) leaves isLoading and isochroneData unchanged.
C28_LoadingEnds ==
    /\ isLoading ~> ~isLoading
    /\ [][ReturnWithoutRun => UNCHANGED <<isLoading, isochroneData>>]_vars

\* C28 witness: a run over two stops raised and has ended: isLoading is
\* false again and the failure was reported.
C28_Witness ==
    /\ idxPc = "settled"
    /\ ~isLoading
    /\ Len(runStops) = 2
    /\ runFailed # {}
    /\ toasts = <<"Calculating", "Calculation Error">>

(***************************************************************************)
(* Clock-time conversion: formatMinutesToTime and parseTimeToMinutes on    *)
(* text (gtfsParser.ts 182-188 and 311-314; timeUtils.ts 12-29).  A string *)
(* is the sequence of its characters; a number is an exact fraction or NaN.*)
(***************************************************************************)
MaxClockMinutes == 6100

DigitChars == <<"0", "1", "2", "3", "4", "5", "6", "7", "8", "9">>

\* Number.prototype.toString of a non-negative integer
RECURSIVE NumberToString(_)
NumberToString(n) ==
    IF n < 10 THEN <<DigitChars[n + 1]>>
    ELSE Append(NumberToString(n \div 10), DigitChars[(n % 10) + 1])

\* String.prototype.padStart(targetLength, "0")
RECURSIVE PadStart(_, _)
PadStart(str, targetLength) ==
    IF Len(str) >= targetLength THEN str ELSE PadStart(<<"0">> \o str, targetLength)

\* String.prototype.split(":")
RECURSIVE Split(_, _, _)
Split(str, i, current) ==
    IF i > Len(str) THEN <<current>>
    ELSE IF str[i] = ":" THEN <<current>> \o Split(str, i + 1, <<>>)
    ELSE Split(str, i + 1, Append(current, str[i]))

DigitValue(c) == (CHOOSE k \in 1..10 : DigitChars[k] = c) - 1

RECURSIVE DigitsValue(_, _)
DigitsValue(str, acc) ==
    IF str = <<>> THEN acc
    ELSE DigitsValue(Tail(str), acc * 10 + DigitValue(Head(str)))

\* Number(text) of a run of decimal digits; "" is 0, any other text NaN
ToNumber(str) ==
    IF \A i \in 1..Len(str) : str[i] \in Range(DigitChars)
    THEN Finite(DigitsValue(str, 0), 1)
    ELSE NaN

\* A variant of formatMinutesToTime that wraps the hours at midnight.
formatMinutesToTimeWrapped(minutes) ==
    LET hours == (minutes \div 60) % 24
        mins == minutes % 60
        secs == (minutes % 1) * 60
    IN PadStart(NumberToString(hours), 2) \o <<":">> \o PadStart(NumberToString(mins), 2)
           \o <<":">> \o PadStart(NumberToString(secs), 2)

\* gtfsParser.ts 182-188, for a whole number of minutes
formatMinutesToTime(minutes) ==
    LET hours == minutes \div 60
        mins == minutes % 60
        secs == (minutes % 1) * 60
    IN PadStart(NumberToString(hours), 2) \o <<":">> \o PadStart(NumberToString(mins), 2)
           \o <<":">> \o PadStart(NumberToString(secs), 2)

\* timeUtils.ts 23-29
timeUtilsFormatMinutesToTime(minutes) ==
    LET hours == minutes \div 60
        mins == minutes % 60
        secs == (minutes % 1) * 60
    IN PadStart(NumberToString(hours), 2) \o <<":">> \o PadStart(NumberToString(mins), 2)
           \o <<":">> \o PadStart(NumberToString(secs), 2)

\* hours * 60 + minutes + (seconds ? seconds / 60 : 0) for the numbers of the
\* first three parts; a missing part is undefined: NaN in arithmetic, falsy
\* as a condition (as are 0 and NaN)
ClockValue(parts) ==
    LET part(i) == IF i <= Len(parts) THEN ToNumber(parts[i]) ELSE NaN
        hours == part(1)
        minutes == part(2)
        seconds == part(3)
        truthy == seconds.kind = "finite" /\ seconds.num # 0
    IN FAdd(FAdd(FMul(hours, 60), minutes),
            IF truthy THEN FDiv(seconds, Finite(60, 1)) ELSE Finite(0, 1))

\* gtfsParser.ts 311-314, on the text of a time
parseTimeToMinutesOfText(timeStr) == ClockValue(Split(timeStr, 1, <<>>))

\* timeUtils.ts 12-15
timeUtilsParseTimeToMinutes(timeStr) ==
    LET parts == Split(timeStr, 1, <<>>)
        part(i) == IF i <= Len(parts) THEN ToNumber(parts[i]) ELSE NaN
        seconds == part(3)
    IN FAdd(FAdd(FMul(part(1), 60), part(2)),
            IF seconds.kind = "finite" /\ seconds.num # 0
            THEN FDiv(seconds, Finite(60, 1)) ELSE Finite(0, 1))

\* "HH:MM:SS"
ClockText(hh, mm, ss) ==
    PadStart(NumberToString(hh), 2) \o <<":">> \o PadStart(NumberToString(mm), 2)
        \o <<":">> \o PadStart(NumberToString(ss), 2)

GivenHours == {0, 8, 23, 24, 25, 47, 100}
GivenMinutes == {0, 5, 30, 59}
GivenSeconds == {0, 30}

\* times as a feed writes them, and "8:30" without padding and seconds
GivenTexts ==
    {ClockText(hh, mm, ss) : hh \in GivenHours, mm \in GivenMinutes, ss \in GivenSeconds}
        \cup {<<"8", ":", "3", "0">>}

InitTime ==
    /\ \/ /\ timeMinutes \in 0..MaxClockMinutes
          /\ timeText = <<>>
          /\ timePc = "minutes"
       \/ /\ timeMinutes = 0
          /\ timeText \in GivenTexts
          /\ timePc = "text"
    /\ timeParsed = 0
    /\ CoreIdle /\ SimIdle /\ PairIdle

TimeUnchanged == UNCHANGED <<timeMinutes, coreVars, simVars, pairVars>>

CallFormatMinutesToTime ==
    /\ timePc = "minutes"
    /\ timeText' = formatMinutesToTime(timeMinutes)
    /\ timePc' = "formatted"
    /\ UNCHANGED timeParsed
    /\ TimeUnchanged

\* parseTimeToMinutes of the text just formatted
CallParseTimeToMinutes ==
    /\ timePc = "formatted"
    /\ timeParsed' = parseTimeToMinutesOfText(timeText)
    /\ timePc' = "roundTrip"
    /\ UNCHANGED timeText
    /\ TimeUnchanged

\* parseTimeToMinutes of a text of the feed
CallParseGivenText ==
    /\ timePc = "text"
    /\ timeParsed' = parseTimeToMinutesOfText(timeText)
    /\ timePc' = "parsed"
    /\ UNCHANGED timeText
    /\ TimeUnchanged

NextTime == CallFormatMinutesToTime \/ CallParseTimeToMinutes \/ CallParseGivenText

SpecTime == InitTime /\ [][NextTime]_vars

\* C30: clock-time conversion round-trips on whole minutes, overnight hours
\* included: parseTimeToMinutes(formatMinutesToTime(m)) = m for every whole
\* m >= 0 (also m >= 1440); parseTimeToMinutes("HH:MM:00") = 60 x HH + MM,
\* for HH >= 24 as well ("08:30:00" gives 510); and the copies of both
\* functions in gtfsParser.ts and timeUtils.ts agree on every input.
C30_ClockRoundTrip ==
    /\ timePc \in {"formatted", "roundTrip"} =>
          timeText = timeUtilsFormatMinutesToTime(timeMinutes)
    /\ timePc = "roundTrip" =>
          /\ timeParsed = Finite(timeMinutes, 1)
          /\ timeParsed = timeUtilsParseTimeToMinutes(timeText)
    /\ timePc = "parsed" =>
          /\ timeParsed = timeUtilsParseTimeToMinutes(timeText)
          /\ \A hh \in GivenHours :
                \A mm \in GivenMinutes :
                    timeText = ClockText(hh, mm, 0) => timeParsed = Finite(60 * hh + mm, 1)
          /\ timeText = <<"0", "8", ":", "3", "0", ":", "0", "0">> => timeParsed = Finite(510, 1)

\* C30 witness: 1505 minutes (25:05 on the service day) were formatted as
\* "25:05:00" and parsed back.
C30_Witness ==
    /\ timePc = "roundTrip"
    /\ timeMinutes = 1505
    /\ timeText = <<"2", "5", ":", "0", "5", ":", "0", "0">>
    /\ timeParsed = Finite(1505, 1)

====
